---- MODULE Spec2Model ----
(***************************************************************************)
(* State-machine model of the solmint marketplace program                  *)
(* (src/solana-program/src): the five instructions of processor.rs acting  *)
(* on ledger accounts, the fee arithmetic of state.rs, and the ledger's    *)
(* transaction semantics the program runs under (all-or-nothing            *)
(* transactions, ownership and write-permission checks, removal of         *)
(* zero-balance accounts at the end of a transaction).                     *)
(*                                                                         *)
(* Integer widths are scaled so that every value fits the model checker's  *)
(* integers while keeping the relations the code relies on:                *)
(*   u16 -> 10 bits, u64 -> 20 bits, u128 -> 30 bits,                      *)
(* so 1000 < U16_MAX and U64_MAX * U16_MAX <= U128_MAX as in the program.  *)
(***************************************************************************)
EXTENDS Integers, Sequences, FiniteSets, TLC

VARIABLES
    accounts,   \* address -> [owner, lamports, data]: the working ledger state
    snapshot,   \* the ledger state at the start of the transaction in progress
    txLen,      \* instructions executed so far in the transaction in progress
    clock,      \* Clock::unix_timestamp; advances when a transaction commits
    last,       \* the last instruction executed in the transaction in progress
                \* and its result
    feeIn,      \* arguments of a call of the fee arithmetic: price, fee_bp
    feeOut,     \* results of that call: calculate_fee, calculate_seller_proceeds
    wire,       \* an instruction on its way to the program: the instruction a
                \* client builds, its payload bytes, the processor's result
    poller,     \* the Ledger Poller task: its position in the loop of
                \* SolanaIndexer::start and the locals of the sweep in progress
    indexer_state,  \* the indexer_state table: the persisted cursor
    tasks,      \* the service process: whether main has started it and the
                \* background tasks spawned
    activities, \* the activities table: the rows the Poller's sink wrote
    listeners,  \* the Event-Stream Listener tasks: for each, its position in
                \* WebsocketIndexer::start and the bundle and event in hand
    nfts        \* the nfts table: its rows and whether mint_address is unique

ledgerVars == <<accounts, snapshot, txLen, clock, last>>
feeVars == <<feeIn, feeOut>>
\* the variables no instruction of the ledger program touches
outsideLedger ==
    <<feeIn, feeOut, wire, poller, indexer_state, tasks, activities,
      listeners, nfts>>
wireVars == <<wire>>
pollerVars == <<poller, indexer_state, tasks, activities>>
listenerVars == <<listeners, nfts>>
\* the variables the Poller and main leave alone
outsidePoller == <<ledgerVars, feeVars, wireVars, listenerVars>>
\* the variables the Listener leaves alone
outsideListener == <<ledgerVars, feeVars, wireVars, pollerVars>>
vars == <<accounts, snapshot, txLen, clock, last, feeIn, feeOut, wire, poller,
          indexer_state, tasks, activities, listeners, nfts>>

----------------------------------------------------------------------------
(* Bounds of the model *)

\* transactions committed in one behaviour
MaxClock == 2
\* instructions per transaction
MaxTxLen == 2
\* lamports charged per byte of account data by Rent::minimum_balance
RentPerByte == 1

----------------------------------------------------------------------------
(* Integer widths (scaled) *)

U16_MAX == 2^10 - 1
U64_MAX == 2^20 - 1
U128_MAX == 2^30 - 1

----------------------------------------------------------------------------
(* Addresses *)

PROGRAM_ID == "Program"
SYSTEM_PROGRAM == "System"
FOREIGN_PROGRAM == "Foreign"

Wallets == {"W1", "W2"}
Mints == {"M1"}

\* state.rs get_marketplace_pda: find_program_address(["marketplace", authority])
get_marketplace_pda(program_id, authority) ==
    program_id \o "/marketplace/" \o authority

\* state.rs get_listing_pda: find_program_address(["listing", mint, seller])
get_listing_pda(program_id, nft_mint, seller) ==
    program_id \o "/listing/" \o nft_mint \o "/" \o seller

MarketplaceAddrs == {get_marketplace_pda(PROGRAM_ID, a) : a \in Wallets}
ListingAddrs == {get_listing_pda(PROGRAM_ID, m, s) : m \in Mints, s \in Wallets}

\* an account created by another program, holding bytes shaped like a
\* Marketplace record
FakeMarketplace == "Foreign/marketplace"

Addrs == Wallets \cup MarketplaceAddrs \cup ListingAddrs \cup {FakeMarketplace}

----------------------------------------------------------------------------
(* Account data: state.rs *)

Marketplace_LEN == 83
Listing_LEN == 113

EmptyData == [len |-> 0]

\* Marketplace::new
Marketplace_new(authority, fee_percentage, fee_recipient) ==
    [len |-> Marketplace_LEN, is_initialized |-> TRUE, authority |-> authority,
     fee_percentage |-> fee_percentage, fee_recipient |-> fee_recipient,
     total_volume |-> 0, total_sales |-> 0]

\* Listing::new
Listing_new(seller, nft_mint, price, created_at, marketplace) ==
    [len |-> Listing_LEN, is_initialized |-> TRUE, seller |-> seller,
     nft_mint |-> nft_mint, price |-> price, created_at |-> created_at,
     marketplace |-> marketplace]

\* Pack::unpack for Marketplace: the length check of unpack_unchecked, then
\* unpack_from_slice, then the is_initialized check of Pack::unpack
Marketplace_unpack(data) ==
    IF data.len # Marketplace_LEN THEN [err |-> "InvalidAccountData"]
    ELSE IF ~data.is_initialized THEN [err |-> "UninitializedAccount"]
    ELSE [err |-> "Ok", value |-> data]

\* Pack::unpack for Listing
Listing_unpack(data) ==
    IF data.len # Listing_LEN THEN [err |-> "InvalidAccountData"]
    ELSE IF ~data.is_initialized THEN [err |-> "UninitializedAccount"]
    ELSE [err |-> "Ok", value |-> data]

\* Rent::minimum_balance
minimum_balance(space) == space * RentPerByte

----------------------------------------------------------------------------
(* Fee arithmetic: state.rs Marketplace::calculate_fee and                 *)
(* calculate_seller_proceeds                                               *)

\* the basis-points divisor of calculate_fee
BASIS_POINTS == 10000

\* the cap on fee_percentage checked by the processor
MAX_FEE_PERCENTAGE == 1000

\* u128::checked_mul
checked_mul_u128(a, b) ==
    IF a * b > U128_MAX THEN [err |-> "AmountOverflow"]
    ELSE [err |-> "Ok", value |-> a * b]

\* u128::checked_div
checked_div_u128(a, b) ==
    IF b = 0 THEN [err |-> "MarketplaceFeeCalculationError"]
    ELSE [err |-> "Ok", value |-> a \div b]

\* u64::checked_mul
checked_mul_u64(a, b) ==
    IF a * b > U64_MAX THEN [err |-> "AmountOverflow"]
    ELSE [err |-> "Ok", value |-> a * b]

\* calculate_fee without the widening casts: the product is formed in u64
calculate_fee_narrow(fee_percentage, price) ==
    LET prod == checked_mul_u64(price, fee_percentage) IN
    IF prod.err # "Ok" THEN [err |-> prod.err]
    ELSE LET fee == checked_div_u128(prod.value, BASIS_POINTS) IN
         IF fee.err # "Ok" THEN [err |-> fee.err]
         ELSE [err |-> "Ok", value |-> fee.value]

calculate_fee(fee_percentage, price) ==
    LET prod == checked_mul_u128(price, fee_percentage) IN
    IF prod.err # "Ok" THEN [err |-> prod.err]
    ELSE LET fee == checked_div_u128(prod.value, BASIS_POINTS) IN
         IF fee.err # "Ok" THEN [err |-> fee.err]
         ELSE IF fee.value > U64_MAX THEN [err |-> "AmountOverflow"]
         ELSE [err |-> "Ok", value |-> fee.value]

\* u64::checked_sub
checked_sub_u64(a, b) ==
    IF b > a THEN [err |-> "AmountOverflow"]
    ELSE [err |-> "Ok", value |-> a - b]

\* u64::checked_add
checked_add_u64(a, b) ==
    IF a > U64_MAX - b THEN [err |-> "AmountOverflow"]
    ELSE [err |-> "Ok", value |-> a + b]

calculate_seller_proceeds(fee_percentage, price) ==
    LET fee == calculate_fee(fee_percentage, price) IN
    IF fee.err # "Ok" THEN [err |-> fee.err]
    ELSE checked_sub_u64(price, fee.value)

----------------------------------------------------------------------------
(* The system program, as the processor invokes it *)

\* data of a freshly allocated account: `space` zero bytes
ZeroedData(space) == [len |-> space, is_initialized |-> FALSE]

\* system_instruction::create_account through invoke_signed: the new account
\* must not be in use, the payer must hold the lamports; the account is
\* allocated zeroed and assigned to `owner`
create_account(acc, from, to, lamports, space, owner) ==
    IF acc[to].lamports > 0 \/ acc[to].data # EmptyData
          \/ acc[to].owner # SYSTEM_PROGRAM
    THEN [err |-> "SystemAccountAlreadyInUse", accounts |-> acc]
    ELSE IF acc[from].lamports < lamports
    THEN [err |-> "SystemInsufficientFunds", accounts |-> acc]
    ELSE [err |-> "Ok",
          accounts |-> [acc EXCEPT ![from].lamports = @ - lamports,
                                   ![to] = [owner |-> owner,
                                            lamports |-> lamports,
                                            data |-> ZeroedData(space)]]]

\* system_instruction::transfer through invoke
transfer(acc, from, to, lamports) ==
    IF acc[from].data # EmptyData
    THEN [err |-> "SystemInvalidArgument", accounts |-> acc]
    ELSE IF acc[from].lamports < lamports
    THEN [err |-> "SystemInsufficientFunds", accounts |-> acc]
    ELSE LET debited == [acc EXCEPT ![from].lamports = @ - lamports] IN
         [err |-> "Ok",
          accounts |-> [debited EXCEPT ![to].lamports = @ + lamports]]

\* Pack::pack: the destination must have the record's length
pack(value, acc, key) ==
    IF acc[key].data.len # value.len
    THEN [err |-> "InvalidAccountData", accounts |-> acc]
    ELSE [err |-> "Ok", accounts |-> [acc EXCEPT ![key].data = value]]

----------------------------------------------------------------------------
(* processor.rs: the instruction handlers.  Each takes the ledger state    *)
(* and the instruction (account keys in the order of the account list,     *)
(* signer flag of account 0, arguments) and returns the result code with   *)
(* the state as the handler left it when it returned.                      *)

\* process_initialize_marketplace without the check that the marketplace
\* account is unused, the record being written over whatever is there
process_initialize_marketplace_unchecked_owner(acc, now, ix) ==
    IF ix.fee_percentage > MAX_FEE_PERCENTAGE
    THEN [err |-> "InvalidFeePercentage", accounts |-> acc]
    ELSE IF ~ix.is_signer
    THEN [err |-> "MissingRequiredSignature", accounts |-> acc]
    ELSE IF get_marketplace_pda(PROGRAM_ID, ix.authority) # ix.marketplace
    THEN [err |-> "InvalidSeeds", accounts |-> acc]
    ELSE LET created == create_account(acc, ix.authority, ix.marketplace,
                            minimum_balance(Marketplace_LEN), Marketplace_LEN,
                            PROGRAM_ID)
             target == IF created.err = "Ok" THEN created.accounts ELSE acc IN
         pack(Marketplace_new(ix.authority, ix.fee_percentage, ix.authority),
              target, ix.marketplace)

process_initialize_marketplace(acc, now, ix) ==
    IF ix.fee_percentage > MAX_FEE_PERCENTAGE
    THEN [err |-> "InvalidFeePercentage", accounts |-> acc]
    ELSE IF ~ix.is_signer
    THEN [err |-> "MissingRequiredSignature", accounts |-> acc]
    ELSE IF acc[ix.marketplace].owner # SYSTEM_PROGRAM
    THEN [err |-> "InvalidAccountOwner", accounts |-> acc]
    ELSE IF get_marketplace_pda(PROGRAM_ID, ix.authority) # ix.marketplace
    THEN [err |-> "InvalidSeeds", accounts |-> acc]
    ELSE LET created == create_account(acc, ix.authority, ix.marketplace,
                            minimum_balance(Marketplace_LEN), Marketplace_LEN,
                            PROGRAM_ID) IN
         IF created.err # "Ok" THEN created
         ELSE pack(Marketplace_new(ix.authority, ix.fee_percentage, ix.authority),
                   created.accounts, ix.marketplace)

\* process_list_nft without the check that the listing account is unused
process_list_nft_unchecked_owner(acc, now, ix) ==
    IF ix.price = 0
    THEN [err |-> "InvalidPrice", accounts |-> acc]
    ELSE IF ~ix.is_signer
    THEN [err |-> "MissingRequiredSignature", accounts |-> acc]
    ELSE LET marketplace == Marketplace_unpack(acc[ix.marketplace].data) IN
    IF marketplace.err # "Ok"
    THEN [err |-> marketplace.err, accounts |-> acc]
    ELSE IF get_listing_pda(PROGRAM_ID, ix.nft_mint, ix.seller) # ix.listing
    THEN [err |-> "InvalidSeeds", accounts |-> acc]
    ELSE LET created == create_account(acc, ix.seller, ix.listing,
                            minimum_balance(Listing_LEN), Listing_LEN,
                            PROGRAM_ID) IN
         IF created.err # "Ok" THEN created
         ELSE pack(Listing_new(ix.seller, ix.nft_mint, ix.price, now,
                               ix.marketplace),
                   created.accounts, ix.listing)

\* process_list_nft with the listing account created before its address is
\* compared with the derived one
process_list_nft_create_first(acc, now, ix) ==
    IF ix.price = 0
    THEN [err |-> "InvalidPrice", accounts |-> acc]
    ELSE IF ~ix.is_signer
    THEN [err |-> "MissingRequiredSignature", accounts |-> acc]
    ELSE LET marketplace == Marketplace_unpack(acc[ix.marketplace].data) IN
    IF marketplace.err # "Ok"
    THEN [err |-> marketplace.err, accounts |-> acc]
    ELSE IF acc[ix.listing].owner # SYSTEM_PROGRAM
    THEN [err |-> "AccountAlreadyInitialized", accounts |-> acc]
    ELSE LET created == create_account(acc, ix.seller, ix.listing,
                            minimum_balance(Listing_LEN), Listing_LEN,
                            PROGRAM_ID) IN
         IF created.err # "Ok" THEN created
         ELSE IF get_listing_pda(PROGRAM_ID, ix.nft_mint, ix.seller) # ix.listing
         THEN [err |-> "InvalidSeeds", accounts |-> created.accounts]
         ELSE pack(Listing_new(ix.seller, ix.nft_mint, ix.price, now,
                               ix.marketplace),
                   created.accounts, ix.listing)

\* process_list_nft without the check of the price
process_list_nft_any_price(acc, now, ix) ==
    IF ~ix.is_signer
    THEN [err |-> "MissingRequiredSignature", accounts |-> acc]
    ELSE LET marketplace == Marketplace_unpack(acc[ix.marketplace].data) IN
    IF marketplace.err # "Ok"
    THEN [err |-> marketplace.err, accounts |-> acc]
    ELSE IF acc[ix.listing].owner # SYSTEM_PROGRAM
    THEN [err |-> "AccountAlreadyInitialized", accounts |-> acc]
    ELSE IF get_listing_pda(PROGRAM_ID, ix.nft_mint, ix.seller) # ix.listing
    THEN [err |-> "InvalidSeeds", accounts |-> acc]
    ELSE LET created == create_account(acc, ix.seller, ix.listing,
                            minimum_balance(Listing_LEN), Listing_LEN,
                            PROGRAM_ID) IN
         IF created.err # "Ok" THEN created
         ELSE pack(Listing_new(ix.seller, ix.nft_mint, ix.price, now,
                               ix.marketplace),
                   created.accounts, ix.listing)

process_list_nft(acc, now, ix) ==
    IF ix.price = 0
    THEN [err |-> "InvalidPrice", accounts |-> acc]
    ELSE IF ~ix.is_signer
    THEN [err |-> "MissingRequiredSignature", accounts |-> acc]
    ELSE LET marketplace == Marketplace_unpack(acc[ix.marketplace].data) IN
    IF marketplace.err # "Ok"
    THEN [err |-> marketplace.err, accounts |-> acc]
    ELSE IF ~marketplace.value.is_initialized
    THEN [err |-> "AccountNotInitialized", accounts |-> acc]
    ELSE IF acc[ix.listing].owner # SYSTEM_PROGRAM
    THEN [err |-> "AccountAlreadyInitialized", accounts |-> acc]
    ELSE IF get_listing_pda(PROGRAM_ID, ix.nft_mint, ix.seller) # ix.listing
    THEN [err |-> "InvalidSeeds", accounts |-> acc]
    ELSE LET created == create_account(acc, ix.seller, ix.listing,
                            minimum_balance(Listing_LEN), Listing_LEN,
                            PROGRAM_ID) IN
         IF created.err # "Ok" THEN created
         ELSE pack(Listing_new(ix.seller, ix.nft_mint, ix.price, now,
                               ix.marketplace),
                   created.accounts, ix.listing)

\* buy_settle with unchecked (wrapping) additions and a sale counter that is
\* written back unchanged
buy_settle_wrapping(acc, ix, listing, marketplace) ==
    LET packed == pack([marketplace EXCEPT
                            !.total_volume =
                                (@ + listing.price) % (U64_MAX + 1)],
                       acc, ix.marketplace) IN
    IF packed.err # "Ok" THEN packed
    ELSE LET listing_lamports == packed.accounts[ix.listing].lamports
             zeroed == [packed.accounts EXCEPT ![ix.listing].lamports = 0] IN
         [err |-> "Ok",
          accounts |-> [zeroed EXCEPT ![ix.seller].lamports =
                                          (@ + listing_lamports) % (U64_MAX + 1)]]

\* the statistics update, the write of the marketplace record and the closing
\* of the listing account: process_buy_nft from "Update marketplace
\* statistics" to its end
buy_settle(acc, ix, listing, marketplace) ==
    LET volume == checked_add_u64(marketplace.total_volume, listing.price) IN
    IF volume.err # "Ok" THEN [err |-> volume.err, accounts |-> acc]
    ELSE LET sales == checked_add_u64(marketplace.total_sales, 1) IN
    IF sales.err # "Ok" THEN [err |-> sales.err, accounts |-> acc]
    ELSE LET packed == pack([marketplace EXCEPT !.total_volume = volume.value,
                                                !.total_sales = sales.value],
                            acc, ix.marketplace) IN
    IF packed.err # "Ok" THEN packed
    ELSE LET listing_lamports == packed.accounts[ix.listing].lamports
             zeroed == [packed.accounts EXCEPT ![ix.listing].lamports = 0]
             credit == checked_add_u64(zeroed[ix.seller].lamports,
                                       listing_lamports) IN
         IF credit.err # "Ok" THEN [err |-> credit.err, accounts |-> zeroed]
         ELSE [err |-> "Ok",
               accounts |-> [zeroed EXCEPT ![ix.seller].lamports = credit.value]]

\* the payment of process_buy_nft without the transfer of the fee
buy_transfers_without_fee(acc, ix, seller_proceeds, marketplace_fee) ==
    transfer(acc, ix.buyer, ix.seller, seller_proceeds)

\* the two transfers of process_buy_nft: the proceeds to the seller account,
\* then the fee, when it is not 0, to the marketplace fee account supplied
buy_transfers(acc, ix, seller_proceeds, marketplace_fee) ==
    LET paid == transfer(acc, ix.buyer, ix.seller, seller_proceeds) IN
    IF paid.err # "Ok" THEN paid
    ELSE IF marketplace_fee > 0
    THEN transfer(paid.accounts, ix.buyer, ix.marketplace_fee, marketplace_fee)
    ELSE paid

\* process_buy_nft without the comparison of the mint account supplied with
\* the mint recorded in the listing
process_buy_nft_unchecked_mint(acc, now, ix) ==
    IF ~ix.is_signer
    THEN [err |-> "MissingRequiredSignature", accounts |-> acc]
    ELSE LET listing == Listing_unpack(acc[ix.listing].data) IN
    IF listing.err # "Ok"
    THEN [err |-> listing.err, accounts |-> acc]
    ELSE LET marketplace == Marketplace_unpack(acc[ix.marketplace].data) IN
    IF marketplace.err # "Ok"
    THEN [err |-> marketplace.err, accounts |-> acc]
    ELSE IF listing.value.seller # ix.seller
    THEN [err |-> "InvalidSeller", accounts |-> acc]
    ELSE LET marketplace_fee ==
                 calculate_fee(marketplace.value.fee_percentage,
                               listing.value.price)
             seller_proceeds ==
                 calculate_seller_proceeds(marketplace.value.fee_percentage,
                                           listing.value.price) IN
    IF marketplace_fee.err # "Ok"
    THEN [err |-> marketplace_fee.err, accounts |-> acc]
    ELSE IF seller_proceeds.err # "Ok"
    THEN [err |-> seller_proceeds.err, accounts |-> acc]
    ELSE IF acc[ix.buyer].lamports < listing.value.price
    THEN [err |-> "InsufficientFunds", accounts |-> acc]
    ELSE LET moved == buy_transfers(acc, ix, seller_proceeds.value,
                                    marketplace_fee.value) IN
         IF moved.err # "Ok" THEN moved
         ELSE buy_settle(moved.accounts, ix, listing.value, marketplace.value)

process_buy_nft(acc, now, ix) ==
    IF ~ix.is_signer
    THEN [err |-> "MissingRequiredSignature", accounts |-> acc]
    ELSE LET listing == Listing_unpack(acc[ix.listing].data) IN
    IF listing.err # "Ok"
    THEN [err |-> listing.err, accounts |-> acc]
    ELSE IF ~listing.value.is_initialized
    THEN [err |-> "AccountNotInitialized", accounts |-> acc]
    ELSE LET marketplace == Marketplace_unpack(acc[ix.marketplace].data) IN
    IF marketplace.err # "Ok"
    THEN [err |-> marketplace.err, accounts |-> acc]
    ELSE IF ~marketplace.value.is_initialized
    THEN [err |-> "AccountNotInitialized", accounts |-> acc]
    ELSE IF listing.value.nft_mint # ix.nft_mint
    THEN [err |-> "ExpectedAmountMismatch", accounts |-> acc]
    ELSE IF listing.value.seller # ix.seller
    THEN [err |-> "InvalidSeller", accounts |-> acc]
    ELSE LET marketplace_fee ==
                 calculate_fee(marketplace.value.fee_percentage,
                               listing.value.price)
             seller_proceeds ==
                 calculate_seller_proceeds(marketplace.value.fee_percentage,
                                           listing.value.price) IN
    IF marketplace_fee.err # "Ok"
    THEN [err |-> marketplace_fee.err, accounts |-> acc]
    ELSE IF seller_proceeds.err # "Ok"
    THEN [err |-> seller_proceeds.err, accounts |-> acc]
    ELSE IF acc[ix.buyer].lamports < listing.value.price
    THEN [err |-> "InsufficientFunds", accounts |-> acc]
    ELSE LET moved == buy_transfers(acc, ix, seller_proceeds.value,
                                    marketplace_fee.value) IN
         IF moved.err # "Ok" THEN moved
         ELSE buy_settle(moved.accounts, ix, listing.value, marketplace.value)

\* process_cancel_listing without the comparison of the signer with the
\* seller recorded in the listing
process_cancel_listing_any_signer(acc, now, ix) ==
    IF ~ix.is_signer
    THEN [err |-> "MissingRequiredSignature", accounts |-> acc]
    ELSE LET listing == Listing_unpack(acc[ix.listing].data) IN
    IF listing.err # "Ok"
    THEN [err |-> listing.err, accounts |-> acc]
    ELSE IF listing.value.nft_mint # ix.nft_mint
    THEN [err |-> "ExpectedAmountMismatch", accounts |-> acc]
    ELSE LET listing_lamports == acc[ix.listing].lamports
             zeroed == [acc EXCEPT ![ix.listing].lamports = 0]
             credit == checked_add_u64(zeroed[ix.seller].lamports,
                                       listing_lamports) IN
         IF credit.err # "Ok" THEN [err |-> credit.err, accounts |-> zeroed]
         ELSE [err |-> "Ok",
               accounts |-> [zeroed EXCEPT ![ix.seller].lamports = credit.value]]

process_cancel_listing(acc, now, ix) ==
    IF ~ix.is_signer
    THEN [err |-> "MissingRequiredSignature", accounts |-> acc]
    ELSE LET listing == Listing_unpack(acc[ix.listing].data) IN
    IF listing.err # "Ok"
    THEN [err |-> listing.err, accounts |-> acc]
    ELSE IF ~listing.value.is_initialized
    THEN [err |-> "AccountNotInitialized", accounts |-> acc]
    ELSE IF listing.value.seller # ix.seller
    THEN [err |-> "InvalidSeller", accounts |-> acc]
    ELSE IF listing.value.nft_mint # ix.nft_mint
    THEN [err |-> "ExpectedAmountMismatch", accounts |-> acc]
    ELSE LET listing_lamports == acc[ix.listing].lamports
             zeroed == [acc EXCEPT ![ix.listing].lamports = 0]
             credit == checked_add_u64(zeroed[ix.seller].lamports,
                                       listing_lamports) IN
         IF credit.err # "Ok" THEN [err |-> credit.err, accounts |-> zeroed]
         ELSE [err |-> "Ok",
               accounts |-> [zeroed EXCEPT ![ix.seller].lamports = credit.value]]

\* process_update_marketplace_fee without the cap on the new fee
process_update_marketplace_fee_uncapped(acc, now, ix) ==
    IF ~ix.is_signer
    THEN [err |-> "MissingRequiredSignature", accounts |-> acc]
    ELSE LET marketplace == Marketplace_unpack(acc[ix.marketplace].data) IN
    IF marketplace.err # "Ok"
    THEN [err |-> marketplace.err, accounts |-> acc]
    ELSE IF marketplace.value.authority # ix.authority
    THEN [err |-> "InvalidMarketplaceAuthority", accounts |-> acc]
    ELSE pack([marketplace.value EXCEPT !.fee_percentage = ix.fee_percentage],
              acc, ix.marketplace)

\* process_update_marketplace_fee without the comparison of the signer with
\* the authority recorded in the marketplace
process_update_marketplace_fee_any_signer(acc, now, ix) ==
    IF ix.fee_percentage > MAX_FEE_PERCENTAGE
    THEN [err |-> "InvalidFeePercentage", accounts |-> acc]
    ELSE IF ~ix.is_signer
    THEN [err |-> "MissingRequiredSignature", accounts |-> acc]
    ELSE LET marketplace == Marketplace_unpack(acc[ix.marketplace].data) IN
    IF marketplace.err # "Ok"
    THEN [err |-> marketplace.err, accounts |-> acc]
    ELSE pack([marketplace.value EXCEPT !.fee_percentage = ix.fee_percentage],
              acc, ix.marketplace)

\* process_update_marketplace_fee that makes the signer the authority and
\* fee recipient instead of comparing it with the authority recorded
process_update_marketplace_fee_taking_over(acc, now, ix) ==
    IF ix.fee_percentage > MAX_FEE_PERCENTAGE
    THEN [err |-> "InvalidFeePercentage", accounts |-> acc]
    ELSE IF ~ix.is_signer
    THEN [err |-> "MissingRequiredSignature", accounts |-> acc]
    ELSE LET marketplace == Marketplace_unpack(acc[ix.marketplace].data) IN
    IF marketplace.err # "Ok"
    THEN [err |-> marketplace.err, accounts |-> acc]
    ELSE pack([marketplace.value EXCEPT !.fee_percentage = ix.fee_percentage,
                                        !.authority = ix.authority,
                                        !.fee_recipient = ix.authority],
              acc, ix.marketplace)

process_update_marketplace_fee(acc, now, ix) ==
    IF ix.fee_percentage > MAX_FEE_PERCENTAGE
    THEN [err |-> "InvalidFeePercentage", accounts |-> acc]
    ELSE IF ~ix.is_signer
    THEN [err |-> "MissingRequiredSignature", accounts |-> acc]
    ELSE LET marketplace == Marketplace_unpack(acc[ix.marketplace].data) IN
    IF marketplace.err # "Ok"
    THEN [err |-> marketplace.err, accounts |-> acc]
    ELSE IF ~marketplace.value.is_initialized
    THEN [err |-> "AccountNotInitialized", accounts |-> acc]
    ELSE IF marketplace.value.authority # ix.authority
    THEN [err |-> "InvalidMarketplaceAuthority", accounts |-> acc]
    ELSE pack([marketplace.value EXCEPT !.fee_percentage = ix.fee_percentage],
              acc, ix.marketplace)

----------------------------------------------------------------------------
(* Processor::process and the ledger around it *)

\* Processor::process: the dispatch on the decoded instruction
process(acc, now, ix) ==
    CASE ix.kind = "InitializeMarketplace" ->
             process_initialize_marketplace(acc, now, ix)
      [] ix.kind = "ListNft" -> process_list_nft(acc, now, ix)
      [] ix.kind = "BuyNft" -> process_buy_nft(acc, now, ix)
      [] ix.kind = "CancelListing" -> process_cancel_listing(acc, now, ix)
      [] ix.kind = "UpdateMarketplaceFee" ->
             process_update_marketplace_fee(acc, now, ix)

\* the addresses whose data or balance differ between two ledger states
Touched(pre, post) == {k \in Addrs : pre[k] # post[k]}

\* the ledger's check of an instruction that returned Ok: the program may
\* write only the data of accounts it owns, and only accounts the
\* instruction's account list marks writable may change at all
\* (instruction.rs: AccountMeta::new is writable, new_readonly is not)
verify(pre, post, ix) ==
    IF \E k \in Addrs : pre[k].data # post[k].data /\ post[k].owner # PROGRAM_ID
    THEN "ExternalAccountDataModified"
    ELSE IF Touched(pre, post) \cap ix.readonly # {}
    THEN "ReadonlyDataModified"
    ELSE "Ok"

\* one instruction as the ledger runs it: the handler, then the check
execute(acc, now, ix) ==
    LET r == process(acc, now, ix) IN
    IF r.err # "Ok" THEN r
    ELSE LET v == verify(acc, r.accounts, ix) IN
         IF v # "Ok" THEN [err |-> v, accounts |-> r.accounts] ELSE r

\* accounts left with no lamports are removed when the transaction ends
Purge(acc) ==
    [k \in Addrs |->
        IF acc[k].lamports = 0
        THEN [owner |-> SYSTEM_PROGRAM, lamports |-> 0, data |-> EmptyData]
        ELSE acc[k]]

----------------------------------------------------------------------------
(* Inputs *)

\* the sale price of the end-to-end scenario, in scaled lamports; two sales
\* at this price overflow total_volume
HIGH_PRICE == 1000000

Prices == {0, 1, HIGH_PRICE}
FeePercentages == {250, MAX_FEE_PERCENTAGE, MAX_FEE_PERCENTAGE + 1}
AnyMarketplace == MarketplaceAddrs \cup {FakeMarketplace}

\* a mint no listing is created for: the mint account a BuyNft or
\* CancelListing names need not be the one of the listing
UnlistedMint == "M2"
AnyMint == Mints \cup {UnlistedMint}

InitializeMarketplaceInputs ==
    [kind : {"InitializeMarketplace"}, authority : Wallets,
     is_signer : BOOLEAN, marketplace : MarketplaceAddrs,
     fee_percentage : FeePercentages, readonly : {{}}]

ListNftInputs ==
    [kind : {"ListNft"}, seller : Wallets, is_signer : BOOLEAN,
     listing : ListingAddrs, nft_mint : Mints, marketplace : AnyMarketplace,
     price : Prices, readonly : {{}}]

BuyNftInputs ==
    {ix \in [kind : {"BuyNft"}, buyer : Wallets, is_signer : BOOLEAN,
             listing : ListingAddrs, seller : Wallets,
             marketplace_fee : Wallets, nft_mint : AnyMint,
             marketplace : AnyMarketplace,
             readonly : SUBSET AnyMarketplace] :
        ix.readonly \subseteq {ix.marketplace}}

CancelListingInputs ==
    [kind : {"CancelListing"}, seller : Wallets, is_signer : BOOLEAN,
     listing : ListingAddrs, nft_mint : AnyMint, readonly : {{}}]

UpdateMarketplaceFeeInputs ==
    [kind : {"UpdateMarketplaceFee"}, authority : Wallets,
     is_signer : BOOLEAN, marketplace : AnyMarketplace,
     fee_percentage : FeePercentages, readonly : {{}}]

----------------------------------------------------------------------------
(* The state machine *)

\* lamports every wallet holds at the start
Airdrop == 1000

Absent == [owner |-> SYSTEM_PROGRAM, lamports |-> 0, data |-> EmptyData]

InitialAccounts ==
    [k \in Addrs |->
        IF k = "W1"
        THEN [owner |-> SYSTEM_PROGRAM, lamports |-> HIGH_PRICE + Airdrop,
              data |-> EmptyData]
        ELSE IF k \in Wallets
        THEN [owner |-> SYSTEM_PROGRAM, lamports |-> Airdrop,
              data |-> EmptyData]
        ELSE IF k = FakeMarketplace
        THEN [owner |-> FOREIGN_PROGRAM,
              lamports |-> minimum_balance(Marketplace_LEN),
              data |-> Marketplace_new("W2", 0, "W2")]
        ELSE Absent]

NoInstruction == [kind |-> "None"]
NoResult == [called |-> FALSE]

\* no instruction on the wire
NoWire == [stage |-> "none"]

\* the indexer_state table before the first sweep: no row
EmptyTable == [has_row |-> FALSE, last_processed_slot |-> 0]

\* the service process before main runs
NotStarted == [started |-> FALSE, spawned |-> {}, program_id_valid |-> FALSE]

\* the nfts table before the migrations have run
NoTable == [unique_mint |-> FALSE, rows |-> <<>>]

\* the Listener tasks a deployment can run against one store
Listeners == {"L1", "L2"}

\* no notification in hand
NoNotification == [err |-> FALSE, logs |-> <<>>]

\* no event in hand
NoEvent == [mint |-> "none"]

\* no metadata fetched
NoMetadata ==
    [image_url |-> "null", description |-> "null", attributes |-> "null"]

\* a Listener task entering the loop of WebsocketIndexer::start
ListenerStart ==
    [pc |-> "subscribe", log |-> NoNotification, lines |-> <<>>,
     event |-> NoEvent, response |-> "none", metadata |-> NoMetadata,
     outcome |-> "none"]

\* a Listener task that has not been started
ListenerIdle == [ListenerStart EXCEPT !.pc = "idle"]

\* the Poller task when SolanaIndexer::start enters its loop, and at the
\* start of every cycle: about to call process_transactions
PollerStart ==
    [pc |-> "cycle", last_slot |-> 0, current_slot |-> 0, start_slot |-> 0,
     end_slot |-> 0, blocks |-> <<>>, visited |-> <<>>, result |-> "none",
     previous |-> [result |-> "none", last_slot |-> 0, current_slot |-> 0,
                   swept |-> FALSE]]

Init ==
    /\ accounts = InitialAccounts
    /\ snapshot = InitialAccounts
    /\ txLen = 0
    /\ clock = 0
    /\ last = [ix |-> NoInstruction, err |-> "Ok"]
    /\ feeIn = [price |-> 0, fee_bp |-> 0]
    /\ feeOut = NoResult
    /\ wire = NoWire
    /\ poller = PollerStart
    /\ indexer_state = EmptyTable
    /\ tasks = NotStarted
    /\ activities = {}
    /\ listeners = [l \in Listeners |-> ListenerIdle]
    /\ nfts = NoTable

\* the ledger runs the next instruction of the transaction in progress;
\* `accounts` becomes the state the instruction left, also when it failed
Run(ix) ==
    /\ last.err = "Ok"
    /\ txLen < MaxTxLen
    /\ LET r == execute(accounts, clock, ix) IN
       /\ r.err = "Ok" => clock < MaxClock
       /\ last' = [ix |-> ix, err |-> r.err]
       /\ accounts' = r.accounts
    /\ txLen' = txLen + 1
    /\ UNCHANGED <<snapshot, clock>>
    /\ UNCHANGED outsideLedger

InitializeMarketplace == \E ix \in InitializeMarketplaceInputs : Run(ix)
ListNft == \E ix \in ListNftInputs : Run(ix)
BuyNft == \E ix \in BuyNftInputs : Run(ix)
CancelListing == \E ix \in CancelListingInputs : Run(ix)
UpdateMarketplaceFee == \E ix \in UpdateMarketplaceFeeInputs : Run(ix)

\* an instruction failed: the ledger aborts the transaction and restores the
\* state it started from
Abort ==
    /\ last.err # "Ok"
    /\ accounts' = snapshot
    /\ txLen' = 0
    /\ last' = [ix |-> NoInstruction, err |-> "Ok"]
    /\ UNCHANGED <<snapshot, clock>>
    /\ UNCHANGED outsideLedger

\* every instruction of the transaction returned Ok: the transaction ends,
\* its effects become the ledger state and the clock advances
Commit ==
    /\ last.err = "Ok"
    /\ txLen > 0
    /\ accounts' = Purge(accounts)
    /\ snapshot' = Purge(accounts)
    /\ txLen' = 0
    /\ clock' = clock + 1
    /\ last' = [ix |-> NoInstruction, err |-> "Ok"]
    /\ UNCHANGED outsideLedger

Next ==
    \/ InitializeMarketplace
    \/ ListNft
    \/ BuyNft
    \/ CancelListing
    \/ UpdateMarketplaceFee
    \/ Abort
    \/ Commit

Spec == Init /\ [][Next]_vars

----------------------------------------------------------------------------
(* The fee arithmetic on its own: every fee the processor accepts against  *)
(* prices over the whole width of a u64                                    *)

\* how many values are taken at each end of the price range and around
\* each multiple of the divisor
PriceMargin == 3

PriceSamples ==
    (0..PriceMargin) \cup ((U64_MAX - PriceMargin)..U64_MAX)
    \cup ((BASIS_POINTS - PriceMargin)..(BASIS_POINTS + PriceMargin))
    \cup ((HIGH_PRICE - PriceMargin)..(HIGH_PRICE + PriceMargin))
    \cup {2^k : k \in 4..19} \cup {2^k - 1 : k \in 4..19}

FeeInit ==
    /\ accounts = InitialAccounts
    /\ snapshot = InitialAccounts
    /\ txLen = 0
    /\ clock = 0
    /\ last = [ix |-> NoInstruction, err |-> "Ok"]
    /\ feeIn \in [price : PriceSamples, fee_bp : 0..MAX_FEE_PERCENTAGE]
    /\ feeOut = NoResult
    /\ wire = NoWire
    /\ poller = PollerStart
    /\ indexer_state = EmptyTable
    /\ tasks = NotStarted
    /\ activities = {}
    /\ listeners = [l \in Listeners |-> ListenerIdle]
    /\ nfts = NoTable

\* process_buy_nft, "Calculate fees and seller proceeds": both calls on the
\* same marketplace and price
CalculateFees ==
    /\ ~feeOut.called
    /\ feeOut' = [called |-> TRUE,
                  fee |-> calculate_fee(feeIn.fee_bp, feeIn.price),
                  proceeds |-> calculate_seller_proceeds(feeIn.fee_bp,
                                                         feeIn.price)]
    /\ UNCHANGED <<feeIn, ledgerVars, wireVars, pollerVars, listenerVars>>

FeeNext == CalculateFees

SpecFee == FeeInit /\ [][FeeNext]_vars

----------------------------------------------------------------------------
(* instruction.rs: the instruction codec (the Borsh encoding derived for   *)
(* MarketplaceInstruction) and Processor::process on the payload bytes     *)

\* the variant index Borsh writes for each variant, in declaration order
VariantIndex ==
    [InitializeMarketplace |-> 0, ListNft |-> 1, BuyNft |-> 2,
     CancelListing |-> 3, UpdateMarketplaceFee |-> 4]

\* the bytes of the fields that follow the variant index: a u16, a u64, none
FieldWidth(tag) ==
    CASE tag \in {0, 4} -> 2
      [] tag = 1 -> 8
      [] tag \in {2, 3} -> 0

RECURSIVE to_le_bytes(_, _)
\* the little-endian bytes of an unsigned integer of `width` bytes
to_le_bytes(value, width) ==
    IF width = 0 THEN <<>>
    ELSE <<value % 256>> \o to_le_bytes(value \div 256, width - 1)

RECURSIVE from_le_bytes(_)
\* the unsigned integer of a little-endian byte sequence
from_le_bytes(bytes) ==
    IF bytes = <<>> THEN 0
    ELSE Head(bytes) + 256 * from_le_bytes(Tail(bytes))

\* the data an instruction carries: the variant and its field
InstructionData(ix) ==
    CASE ix.kind \in {"InitializeMarketplace", "UpdateMarketplaceFee"} ->
             [kind |-> ix.kind, fee_percentage |-> ix.fee_percentage]
      [] ix.kind = "ListNft" -> [kind |-> ix.kind, price |-> ix.price]
      [] ix.kind \in {"BuyNft", "CancelListing"} -> [kind |-> ix.kind]

\* MarketplaceInstruction::pack with each field written in half its width
MarketplaceInstruction_pack_narrow(ix) ==
    CASE ix.kind \in {"InitializeMarketplace", "UpdateMarketplaceFee"} ->
             <<VariantIndex[ix.kind]>> \o to_le_bytes(ix.fee_percentage, 1)
      [] ix.kind = "ListNft" ->
             <<VariantIndex[ix.kind]>> \o to_le_bytes(ix.price, 4)
      [] ix.kind \in {"BuyNft", "CancelListing"} -> <<VariantIndex[ix.kind]>>

\* MarketplaceInstruction::pack: try_to_vec
MarketplaceInstruction_pack(ix) ==
    CASE ix.kind \in {"InitializeMarketplace", "UpdateMarketplaceFee"} ->
             <<VariantIndex[ix.kind]>> \o to_le_bytes(ix.fee_percentage, 2)
      [] ix.kind = "ListNft" ->
             <<VariantIndex[ix.kind]>> \o to_le_bytes(ix.price, 8)
      [] ix.kind \in {"BuyNft", "CancelListing"} -> <<VariantIndex[ix.kind]>>

\* MarketplaceInstruction::unpack: try_from_slice reads the variant index,
\* then the field, and rejects input left over; every failure is a
\* std::io::Error
MarketplaceInstruction_unpack(input) ==
    IF input = <<>>
    THEN [err |-> "io::Error", cause |-> "UnexpectedLength"]
    ELSE LET tag == Head(input)
             rest == Tail(input) IN
         IF tag \notin 0..4
         THEN [err |-> "io::Error", cause |-> "InvalidVariant"]
         ELSE IF Len(rest) < FieldWidth(tag)
         THEN [err |-> "io::Error", cause |-> "UnexpectedLength"]
         ELSE IF Len(rest) > FieldWidth(tag)
         THEN [err |-> "io::Error", cause |-> "NotAllBytesRead"]
         ELSE [err |-> "Ok",
               value |->
                 CASE tag = 0 -> [kind |-> "InitializeMarketplace",
                                  fee_percentage |-> from_le_bytes(rest)]
                   [] tag = 1 -> [kind |-> "ListNft",
                                  price |-> from_le_bytes(rest)]
                   [] tag = 2 -> [kind |-> "BuyNft"]
                   [] tag = 3 -> [kind |-> "CancelListing"]
                   [] tag = 4 -> [kind |-> "UpdateMarketplaceFee",
                                  fee_percentage |-> from_le_bytes(rest)]]

\* placeholders for the accounts of an account list that the processor
\* never reads
TokenAccount == "TokenAccount"
TokenProgram == "TokenProgram"
RentSysvar == "SysvarRent"

\* the account list each builder of instruction.rs produces
account_metas(ix) ==
    CASE ix.kind = "InitializeMarketplace" ->
             <<ix.authority, ix.marketplace, SYSTEM_PROGRAM, RentSysvar>>
      [] ix.kind = "ListNft" ->
             <<ix.seller, ix.listing, ix.nft_mint, TokenAccount,
               ix.marketplace, SYSTEM_PROGRAM, RentSysvar>>
      [] ix.kind = "BuyNft" ->
             <<ix.buyer, ix.listing, TokenAccount, TokenAccount, ix.seller,
               ix.marketplace_fee, ix.nft_mint, ix.marketplace, TokenProgram,
               SYSTEM_PROGRAM>>
      [] ix.kind = "CancelListing" -> <<ix.seller, ix.listing, ix.nft_mint>>
      [] ix.kind = "UpdateMarketplaceFee" -> <<ix.authority, ix.marketplace>>

\* the accounts each builder passes with AccountMeta::new: writable
builder_writable(ix) ==
    CASE ix.kind = "InitializeMarketplace" -> {ix.authority, ix.marketplace}
      [] ix.kind = "ListNft" -> {ix.seller, ix.listing, TokenAccount}
      [] ix.kind = "BuyNft" ->
             {ix.buyer, ix.listing, TokenAccount, ix.seller,
              ix.marketplace_fee}
      [] ix.kind = "CancelListing" -> {ix.seller, ix.listing}
      [] ix.kind = "UpdateMarketplaceFee" -> {ix.authority, ix.marketplace}

\* the accounts of a built instruction the ledger treats as read-only:
\* those of the list that no entry marks writable
builder_readonly(ix) ==
    {account_metas(ix)[i] : i \in 1..Len(account_metas(ix))}
        \ builder_writable(ix)

\* the accounts each handler takes with next_account_info
AccountsExpected ==
    [InitializeMarketplace |-> 4, ListNft |-> 7, BuyNft |-> 10,
     CancelListing |-> 3, UpdateMarketplaceFee |-> 2]

\* the instruction as the handler of the decoded variant reads it: the
\* decoded field and the accounts by their position in the list
next_account_info(data, list, ix) ==
    CASE data.kind = "InitializeMarketplace" ->
             [kind |-> data.kind, authority |-> list[1],
              is_signer |-> ix.is_signer, marketplace |-> list[2],
              fee_percentage |-> data.fee_percentage,
              readonly |-> ix.readonly]
      [] data.kind = "ListNft" ->
             [kind |-> data.kind, seller |-> list[1],
              is_signer |-> ix.is_signer, listing |-> list[2],
              nft_mint |-> list[3], marketplace |-> list[5],
              price |-> data.price, readonly |-> ix.readonly]
      [] data.kind = "BuyNft" ->
             [kind |-> data.kind, buyer |-> list[1],
              is_signer |-> ix.is_signer, listing |-> list[2],
              seller |-> list[5], marketplace_fee |-> list[6],
              nft_mint |-> list[7], marketplace |-> list[8],
              readonly |-> ix.readonly]
      [] data.kind = "CancelListing" ->
             [kind |-> data.kind, seller |-> list[1],
              is_signer |-> ix.is_signer, listing |-> list[2],
              nft_mint |-> list[3], readonly |-> ix.readonly]
      [] data.kind = "UpdateMarketplaceFee" ->
             [kind |-> data.kind, authority |-> list[1],
              is_signer |-> ix.is_signer, marketplace |-> list[2],
              fee_percentage |-> data.fee_percentage,
              readonly |-> ix.readonly]

\* Processor::process on the payload bytes: the payload is decoded first
\* and the `?` turns a std::io::Error into ProgramError::BorshIoError; the
\* handler of the decoded variant then takes its accounts from the list
Processor_process(acc, now, ix, input) ==
    LET decoded == MarketplaceInstruction_unpack(input) IN
    IF decoded.err # "Ok"
    THEN [err |-> "BorshIoError", accounts |-> acc]
    ELSE IF Len(account_metas(ix)) < AccountsExpected[decoded.value.kind]
    THEN [err |-> "NotEnoughAccountKeys", accounts |-> acc]
    ELSE execute(acc, now,
                 next_account_info(decoded.value, account_metas(ix), ix))

\* field values of the codec's range beyond those the ledger model lists
CodecFees == {0, 255, 256, 2^16 - 1}
CodecPrices == {255, 256, 2^30 + (2^30 - 1)}

\* the instructions a client builds
CodecInputs ==
    InitializeMarketplaceInputs \cup ListNftInputs \cup BuyNftInputs
    \cup CancelListingInputs \cup UpdateMarketplaceFeeInputs
    \cup [kind : {"InitializeMarketplace", "UpdateMarketplaceFee"},
          authority : {"W1"}, is_signer : {TRUE},
          marketplace : {get_marketplace_pda(PROGRAM_ID, "W1")},
          fee_percentage : CodecFees, readonly : {{}}]
    \cup [kind : {"ListNft"}, seller : {"W1"}, is_signer : {TRUE},
          listing : {get_listing_pda(PROGRAM_ID, "M1", "W1")},
          nft_mint : {"M1"}, marketplace : {FakeMarketplace},
          price : CodecPrices, readonly : {{}}]

\* bytes written in place of the variant index, and bytes appended
TamperBytes == {0, 1, 2, 3, 4, 5, 255}

CodecInit ==
    /\ accounts = InitialAccounts
    /\ snapshot = InitialAccounts
    /\ txLen = 0
    /\ clock = 0
    /\ last = [ix |-> NoInstruction, err |-> "Ok"]
    /\ feeIn = [price |-> 0, fee_bp |-> 0]
    /\ feeOut = NoResult
    /\ wire \in [stage : {"built"}, ix : CodecInputs]
    /\ poller = PollerStart
    /\ indexer_state = EmptyTable
    /\ tasks = NotStarted
    /\ activities = {}
    /\ listeners = [l \in Listeners |-> ListenerIdle]
    /\ nfts = NoTable

\* the client encodes the instruction it built
Pack ==
    /\ wire.stage = "built"
    /\ wire' = [stage |-> "packed", ix |-> wire.ix, intact |-> TRUE,
                bytes |-> MarketplaceInstruction_pack(wire.ix)]
    /\ UNCHANGED <<ledgerVars, feeVars, pollerVars, listenerVars>>

\* the payload reaches the program cut short
Truncate ==
    /\ wire.stage = "packed" /\ wire.intact
    /\ \E n \in 0..(Len(wire.bytes) - 1) :
          wire' = [wire EXCEPT !.intact = FALSE,
                               !.bytes = SubSeq(wire.bytes, 1, n)]
    /\ UNCHANGED <<ledgerVars, feeVars, pollerVars, listenerVars>>

\* the payload reaches the program with another first byte
Retag ==
    /\ wire.stage = "packed" /\ wire.intact
    /\ \E b \in TamperBytes \ {Head(wire.bytes)} :
          wire' = [wire EXCEPT !.intact = FALSE, !.bytes[1] = b]
    /\ UNCHANGED <<ledgerVars, feeVars, pollerVars, listenerVars>>

\* the payload reaches the program with a byte appended
Extend ==
    /\ wire.stage = "packed" /\ wire.intact
    /\ \E b \in TamperBytes :
          wire' = [wire EXCEPT !.intact = FALSE, !.bytes = Append(wire.bytes, b)]
    /\ UNCHANGED <<ledgerVars, feeVars, pollerVars, listenerVars>>

\* the ledger hands the payload and the account list to Processor::process
ProcessInstruction ==
    /\ wire.stage = "packed"
    /\ LET r == Processor_process(accounts, clock, wire.ix, wire.bytes) IN
       /\ wire' = [stage |-> "processed", ix |-> wire.ix,
                   intact |-> wire.intact, bytes |-> wire.bytes,
                   decoded |-> MarketplaceInstruction_unpack(wire.bytes),
                   err |-> r.err]
       /\ accounts' = r.accounts
    /\ UNCHANGED <<snapshot, txLen, clock, last, feeVars, pollerVars,
                   listenerVars>>

CodecNext ==
    \/ Pack
    \/ Truncate
    \/ Retag
    \/ Extend
    \/ ProcessInstruction

SpecCodec == CodecInit /\ [][CodecNext]_vars

----------------------------------------------------------------------------
(* backend/src/services/indexer.rs: the Ledger Poller.  One action per     *)
(* call that can suspend or fail; `visited` logs the units of the sweep in *)
(* the order they were attempted.                                          *)

\* let batch_size = 100
BATCH_SIZE == 100

\* the heads the RPC node reports, in no particular order over the cycles
Heads == {0, 100, 200, 250}

\* the slots of the ledger that hold a confirmed block
ConfirmedBlocks == {100, 150, 151, 201}

\* a cursor read that starts from the beginning of the ledger
cursor_forgotten(table) == 0

\* get_last_processed_slot: the row's value, 0 when there is no row
get_last_processed_slot(table) ==
    IF table.has_row THEN table.last_processed_slot ELSE 0

\* update_last_processed_slot: the upsert of the single row
update_last_processed_slot(table, slot) ==
    [has_row |-> TRUE, last_processed_slot |-> slot]

\* a sweep that runs whatever the head is
sweep_always(last_slot, current_slot) == TRUE

\* process_transactions returns early when current_slot <= last_slot
sweep_needed(last_slot, current_slot) == current_slot > last_slot

\* the slot before the first unit of the sweep that failed
slot_before_first_failure(p) ==
    IF \E i \in 1..Len(p.visited) : ~p.visited[i].ok
    THEN LET i == CHOOSE i \in 1..Len(p.visited) :
                      /\ ~p.visited[i].ok
                      /\ \A j \in 1..(i - 1) : p.visited[j].ok IN
         p.visited[i].first - 1
    ELSE p.current_slot

\* the slot process_transactions persists after the loop: current_slot
slot_to_persist(p) == p.current_slot

RECURSIVE Ascending(_)
\* the elements of a set of slots in increasing order
Ascending(slots) ==
    IF slots = {} THEN <<>>
    ELSE LET least == CHOOSE x \in slots : \A y \in slots : x <= y IN
         <<least>> \o Ascending(slots \ {least})

\* get_blocks_with_commitment(start_slot, Some(end_slot)): the confirmed
\* slots of the range, ascending
get_blocks(start_slot, end_slot) ==
    Ascending({b \in ConfirmedBlocks : start_slot <= b /\ b <= end_slot})

\* an end of batch that is not held back at the head
unclamped(a, b) == a

Min(a, b) == IF a <= b THEN a ELSE b

\* a sweep that gives up at the first batch that fails
stop_after_error(p) == p.current_slot + 1

\* a sweep that takes a failed batch again
retry_after_error(p) == p.start_slot

\* `continue` in the for loop of process_transactions: the next start_slot
\* of step_by(batch_size)
continue_after_error(p) == p.start_slot + BATCH_SIZE

\* the transactions of each confirmed block: the signature, whether the
\* encoded transaction decodes, its static account keys and whether it
\* carries status metadata
BlockTransactions(slot) ==
    IF slot = 100
    THEN <<[signature |-> "sig100a", decodes |-> TRUE,
            account_keys |-> {"W1", PROGRAM_ID}, has_meta |-> TRUE],
           [signature |-> "sig100b", decodes |-> TRUE,
            account_keys |-> {"W1", SYSTEM_PROGRAM}, has_meta |-> TRUE]>>
    ELSE IF slot = 150
    THEN <<[signature |-> "sig150a", decodes |-> FALSE,
            account_keys |-> {"W2", PROGRAM_ID}, has_meta |-> TRUE]>>
    ELSE IF slot = 151
    THEN <<[signature |-> "sig151a", decodes |-> TRUE,
            account_keys |-> {"W2", PROGRAM_ID}, has_meta |-> FALSE],
           [signature |-> "sig151b", decodes |-> TRUE,
            account_keys |-> {"W1", "W2", PROGRAM_ID}, has_meta |-> TRUE]>>
    ELSE <<>>

\* process_marketplace_instruction: the generic request is built with the
\* mint "placeholder", and Activity::create is called only for a request
\* whose mint is not "placeholder"
process_marketplace_instruction(signature) ==
    LET activity_req == [activity_type |-> "transaction",
                         nft_mint |-> "placeholder",
                         transaction_signature |-> signature] IN
    IF activity_req.nft_mint # "placeholder"
    THEN [result |-> "Ok", writes |-> {activity_req}]
    ELSE [result |-> "Ok", writes |-> {}]

\* process_transaction: a configured program id that does not parse is an
\* error; a transaction without the program among its static account keys
\* is passed over; one without metadata is passed over
process_transaction(tx, program_id_valid) ==
    IF ~program_id_valid THEN [result |-> "Err", writes |-> {}]
    ELSE IF PROGRAM_ID \notin tx.account_keys
    THEN [result |-> "Ok", writes |-> {}]
    ELSE IF tx.has_meta THEN process_marketplace_instruction(tx.signature)
    ELSE [result |-> "Ok", writes |-> {}]

\* process_block after the fetch: every transaction that decodes goes to
\* process_transaction, an error is logged and the loop continues
process_block(slot, program_id_valid) ==
    LET txs == BlockTransactions(slot) IN
    [i \in 1..Len(txs) |->
        IF txs[i].decodes
        THEN [signature |-> txs[i].signature, attempted |-> TRUE] @@
             process_transaction(txs[i], program_id_valid)
        ELSE [signature |-> txs[i].signature, attempted |-> FALSE,
              result |-> "Ok", writes |-> {}]]

\* main: the configuration is read from the environment, the migrations
\* create the tables, the Poller is spawned and the server starts
Main ==
    /\ ~tasks.started
    /\ \E program_id_valid \in BOOLEAN :
          tasks' = [started |-> TRUE, spawned |-> {"indexer"},
                    program_id_valid |-> program_id_valid]
    /\ \E unique_mint \in BOOLEAN :
          nfts' = [unique_mint |-> unique_mint, rows |-> <<>>]
    /\ UNCHANGED <<poller, indexer_state, activities, listeners, ledgerVars,
                   feeVars, wireVars>>

\* process_transactions, first call: the cursor is read, or the store fails
GetLastProcessedSlot ==
    /\ "indexer" \in tasks.spawned
    /\ poller.pc = "cycle"
    /\ \/ poller' = [poller EXCEPT
                         !.pc = "get_slot",
                         !.last_slot = get_last_processed_slot(indexer_state)]
       \/ poller' = [poller EXCEPT !.pc = "backoff", !.result = "Err"]
    /\ UNCHANGED <<indexer_state, tasks, activities, outsidePoller>>

\* the head is read, or the RPC fails; no sweep when head <= cursor
GetSlot ==
    /\ poller.pc = "get_slot"
    /\ \/ \E head \in Heads :
             poller' =
                 IF sweep_needed(poller.last_slot, head)
                 THEN [poller EXCEPT !.pc = "batch", !.current_slot = head,
                                     !.start_slot = poller.last_slot + 1]
                 ELSE [poller EXCEPT !.pc = "sleep", !.current_slot = head,
                                     !.result = "Ok"]
       \/ poller' = [poller EXCEPT !.pc = "backoff", !.result = "Err"]
    /\ UNCHANGED <<indexer_state, tasks, activities, outsidePoller>>

\* the next batch of the for loop: process_slot_range fetches the block
\* list of start_slot..=end_slot; when that fails the batch is logged and
\* skipped
ProcessSlotRange ==
    /\ poller.pc = "batch"
    /\ poller.start_slot <= poller.current_slot
    /\ LET end_slot == Min(poller.start_slot + BATCH_SIZE - 1,
                           poller.current_slot) IN
       \/ poller' = [poller EXCEPT
                         !.pc = "blocks", !.end_slot = end_slot,
                         !.blocks = get_blocks(poller.start_slot, end_slot)]
       \/ poller' = [poller EXCEPT
                         !.end_slot = end_slot,
                         !.visited = Append(@, [unit |-> "batch",
                                                first |-> poller.start_slot,
                                                last |-> end_slot,
                                                ok |-> FALSE]),
                         !.start_slot = continue_after_error(poller)]
    /\ UNCHANGED <<indexer_state, tasks, activities, outsidePoller>>

\* process_block on the next block of the list: it is fetched and its
\* transactions are processed, or its fetch fails and the block is logged
\* and skipped
ProcessBlock ==
    /\ poller.pc = "blocks"
    /\ poller.blocks # <<>>
    /\ LET slot == Head(poller.blocks)
           handed == process_block(slot, tasks.program_id_valid) IN
       \/ /\ poller' = [poller EXCEPT
                            !.blocks = Tail(@),
                            !.visited = Append(@, [unit |-> "block",
                                                   first |-> slot,
                                                   last |-> slot,
                                                   ok |-> TRUE,
                                                   handed |-> handed])]
          /\ activities' =
                 activities \cup
                 UNION {handed[i].writes : i \in 1..Len(handed)}
       \/ /\ poller' = [poller EXCEPT
                            !.blocks = Tail(@),
                            !.visited = Append(@, [unit |-> "block",
                                                   first |-> slot,
                                                   last |-> slot,
                                                   ok |-> FALSE,
                                                   handed |-> <<>>])]
          /\ UNCHANGED activities
    /\ UNCHANGED <<indexer_state, tasks, outsidePoller>>

\* process_slot_range returns Ok after the last block of the list
EndSlotRange ==
    /\ poller.pc = "blocks"
    /\ poller.blocks = <<>>
    /\ poller' = [poller EXCEPT
                      !.pc = "batch",
                      !.visited = Append(@, [unit |-> "batch",
                                             first |-> poller.start_slot,
                                             last |-> poller.end_slot,
                                             ok |-> TRUE]),
                      !.start_slot = @ + BATCH_SIZE]
    /\ UNCHANGED <<indexer_state, tasks, activities, outsidePoller>>

\* after the loop: the cursor is persisted, or the store fails and
\* process_transactions returns the error
UpdateLastProcessedSlot ==
    /\ poller.pc = "batch"
    /\ poller.start_slot > poller.current_slot
    /\ \/ /\ indexer_state' =
                 update_last_processed_slot(indexer_state,
                                            slot_to_persist(poller))
          /\ poller' = [poller EXCEPT !.pc = "sleep", !.result = "Ok"]
       \/ /\ poller' = [poller EXCEPT !.pc = "backoff", !.result = "Err"]
          /\ UNCHANGED indexer_state
    /\ UNCHANGED <<tasks, activities, outsidePoller>>

\* a loop that ends at the first error of a cycle
BackoffExit ==
    /\ poller.pc = "backoff"
    /\ poller' = [poller EXCEPT !.pc = "exited"]
    /\ UNCHANGED <<indexer_state, tasks, activities, outsidePoller>>

\* start: after an error of the cycle, sleep(10 s)
Backoff ==
    /\ poller.pc = "backoff"
    /\ poller' = [poller EXCEPT !.pc = "sleep"]
    /\ UNCHANGED <<indexer_state, tasks, activities, outsidePoller>>

\* start: sleep(indexer_interval_seconds), then the next cycle; the record
\* keeps, as history, how the cycle that ended went
Sleep ==
    /\ poller.pc = "sleep"
    /\ poller' = [PollerStart EXCEPT
                      !.previous = [result |-> poller.result,
                                    last_slot |-> poller.last_slot,
                                    current_slot |-> poller.current_slot,
                                    swept |-> poller.visited # <<>>]]
    /\ UNCHANGED <<indexer_state, tasks, activities, outsidePoller>>

PollerNext ==
    \/ Main
    \/ GetLastProcessedSlot
    \/ GetSlot
    \/ ProcessSlotRange
    \/ ProcessBlock
    \/ EndSlotRange
    \/ UpdateLastProcessedSlot
    \/ Backoff
    \/ Sleep

SpecPoller == Init /\ [][PollerNext]_vars

\* the task is scheduled, every sleep ends, and the store and the RPC node
\* do not fail for ever: a call that is made again and again succeeds again
\* and again
PollerFairness ==
    /\ WF_vars(Main)
    /\ SF_vars(GetLastProcessedSlot /\ poller'.pc = "get_slot")
    /\ SF_vars(GetSlot /\ poller'.pc # "backoff")
    /\ WF_vars(ProcessSlotRange)
    /\ WF_vars(ProcessBlock)
    /\ WF_vars(EndSlotRange)
    /\ SF_vars(UpdateLastProcessedSlot /\ poller'.pc = "sleep")
    /\ WF_vars(Backoff)
    /\ WF_vars(Sleep)

SpecPollerFair == Init /\ [][PollerNext]_vars /\ PollerFairness

(***************************************************************************)
(* backend/src/services/websocket_indexer.rs: the Event-Stream Listener.   *)
(* One action per await of WebsocketIndexer::start and of the functions it *)
(* calls; models/nft.rs: the two statements on the nfts table.             *)
(***************************************************************************)

\* the mints the NFT_MINTED events of the stream name
EventMints == {"N1"}

\* the longest log of a notification
MaxLogLines == 2

\* what follows the marker "NFT_MINTED:" in a log line: JSON of an
\* NftMintedEvent, or text serde_json rejects
Payloads ==
    [wellformed : {TRUE}, mint : EventMints] \cup
    [wellformed : {FALSE}, mint : {"garbage"}]

\* the log lines of a notification: lines without the marker carry nothing
LogLines ==
    [marker : {TRUE}, payload : Payloads] \cup
    [marker : {FALSE}, payload : {[wellformed |-> FALSE, mint |-> "garbage"]}]

\* the notifications of logs_subscribe: value.err is set for a transaction
\* that failed on the ledger, value.logs are its log lines
Notifications ==
    [err : BOOLEAN,
     logs : UNION {[1..n -> LogLines] : n \in 1..MaxLogLines}]

\* what the metadata URI answers
Responses == {"network_error", "http_error", "invalid_json", "metadata"}

\* an extraction that yields an event for whatever follows the marker
extract_nft_event_any(log_line) ==
    [some |-> TRUE, event |-> [mint |-> log_line.payload.mint]]

\* extract_nft_event: the text after the marker parsed as an NftMintedEvent;
\* None when the marker is missing or the text does not parse
extract_nft_event(log_line) ==
    IF log_line.marker
    THEN IF log_line.payload.wellformed
         THEN [some |-> TRUE, event |-> [mint |-> log_line.payload.mint]]
         ELSE [some |-> FALSE, event |-> NoEvent]
    ELSE [some |-> FALSE, event |-> NoEvent]

\* a lookup that finds nothing
find_by_mint_none(rows, mint_address) == [some |-> FALSE]

\* Nft::find_by_mint: SELECT ... WHERE mint_address = $1, fetch_optional
find_by_mint(rows, mint_address) ==
    IF \E i \in 1..Len(rows) : rows[i].mint_address = mint_address
    THEN [some |-> TRUE,
          row |-> rows[CHOOSE i \in 1..Len(rows) :
                          rows[i].mint_address = mint_address]]
    ELSE [some |-> FALSE]

\* a fetch that returns the failure of the request or of the parse
fetch_metadata_or_error(response) ==
    IF response = "metadata"
    THEN [result |-> "Ok",
          metadata |-> [image_url |-> "image", description |-> "description",
                        attributes |-> "attributes"]]
    ELSE [result |-> response, metadata |-> NoMetadata]

\* fetch_metadata: the fields of the document, or nulls for every failure;
\* it never returns an error
fetch_metadata(response) ==
    IF response = "metadata"
    THEN [result |-> "Ok",
          metadata |-> [image_url |-> "image", description |-> "description",
                        attributes |-> "attributes"]]
    ELSE [result |-> "Ok", metadata |-> NoMetadata]

\* an error that leaves run_indexer and ends the subscription
abort_subscription(listener, error) ==
    [listener EXCEPT !.pc = "backoff", !.lines = <<>>, !.outcome = error]

\* an error of handle_nft_minted_event: `?` returns it from
\* process_log_entry, run_indexer prints it and awaits the next notification
abort_log_entry(listener, error) ==
    [listener EXCEPT !.pc = "next", !.lines = <<>>, !.outcome = error]

\* Nft::create: a plain INSERT ... RETURNING *; a row with the same
\* mint_address makes it fail when the column is unique and is joined by a
\* second row when it is not
Nft_create(table, req) ==
    IF /\ table.unique_mint
       /\ \E i \in 1..Len(table.rows) :
             table.rows[i].mint_address = req.mint_address
    THEN [result |-> "unique_violation", table |-> table]
    ELSE [result |-> "Ok",
          table |-> [table EXCEPT !.rows = Append(@, req)]]

\* start_websocket_indexer on the application state main built:
\* WebsocketIndexer::new parses the program id, then start is entered
StartWebsocketIndexer(l) ==
    /\ tasks.started
    /\ tasks.program_id_valid
    /\ listeners[l].pc = "idle"
    /\ listeners' = [listeners EXCEPT ![l] = ListenerStart]
    /\ UNCHANGED <<nfts, outsideListener>>

\* run_indexer: logs_subscribe succeeds, or fails and run_indexer returns
\* the error
LogsSubscribe(l) ==
    /\ listeners[l].pc = "subscribe"
    /\ \/ listeners' = [listeners EXCEPT ![l].pc = "next"]
       \/ listeners' = [listeners EXCEPT ![l].pc = "backoff"]
    /\ UNCHANGED <<nfts, outsideListener>>

\* run_indexer: notifications.next() yields a notification and
\* process_log_entry starts on its lines
NextNotification(l) ==
    /\ listeners[l].pc = "next"
    /\ \E log \in Notifications :
          listeners' = [listeners EXCEPT
                           ![l] = [ListenerStart EXCEPT
                                      !.pc = "lines", !.log = log,
                                      !.lines = log.logs]]
    /\ UNCHANGED <<nfts, outsideListener>>

\* run_indexer: notifications.next() yields None, run_indexer returns
\* Ok(()) and the loop of start calls it again at once
StreamEnds(l) ==
    /\ listeners[l].pc = "next"
    /\ listeners' = [listeners EXCEPT ![l] = ListenerStart]
    /\ UNCHANGED <<nfts, outsideListener>>

\* process_log_entry on the next line: a line with the marker whose
\* payload parses starts handle_nft_minted_event, any other line is passed
ProcessLogLine(l) ==
    /\ listeners[l].pc = "lines"
    /\ listeners[l].lines # <<>>
    /\ LET log_line == Head(listeners[l].lines)
           extracted == extract_nft_event(log_line) IN
       listeners' =
           IF log_line.marker /\ extracted.some
           THEN [listeners EXCEPT ![l].pc = "find_by_mint",
                                  ![l].lines = Tail(@),
                                  ![l].event = extracted.event]
           ELSE [listeners EXCEPT ![l].lines = Tail(@)]
    /\ UNCHANGED <<nfts, outsideListener>>

\* process_log_entry returns Ok after the last line
EndLogEntry(l) ==
    /\ listeners[l].pc = "lines"
    /\ listeners[l].lines = <<>>
    /\ listeners' = [listeners EXCEPT ![l].pc = "next"]
    /\ UNCHANGED <<nfts, outsideListener>>

\* handle_nft_minted_event, the existence check: a row is found and the
\* event is dropped, none is found and the metadata is fetched next, or
\* the query fails and the error ends process_log_entry
FindByMint(l) ==
    /\ listeners[l].pc = "find_by_mint"
    /\ \/ listeners' =
              IF find_by_mint(nfts.rows, listeners[l].event.mint).some
              THEN [listeners EXCEPT ![l].pc = "lines",
                                     ![l].outcome = "exists"]
              ELSE [listeners EXCEPT ![l].pc = "fetch_metadata"]
       \/ listeners' = [listeners EXCEPT
                            ![l] = abort_log_entry(@, "db_error")]
    /\ UNCHANGED <<nfts, outsideListener>>

\* handle_nft_minted_event, the metadata fetch: `?` on its result
FetchMetadata(l) ==
    /\ listeners[l].pc = "fetch_metadata"
    /\ \E response \in Responses :
          LET fetched == fetch_metadata(response) IN
          listeners' =
              IF fetched.result = "Ok"
              THEN [listeners EXCEPT ![l].pc = "create",
                                     ![l].response = response,
                                     ![l].metadata = fetched.metadata]
              ELSE [listeners EXCEPT
                       ![l] = abort_log_entry([@ EXCEPT !.response = response],
                                              fetched.result)]
    /\ UNCHANGED <<nfts, outsideListener>>

\* handle_nft_minted_event, the insert: the row is written, or Nft::create
\* fails and the error ends process_log_entry
NftCreate(l) ==
    /\ listeners[l].pc = "create"
    /\ LET create_request ==
               [mint_address |-> listeners[l].event.mint,
                image_url |-> listeners[l].metadata.image_url,
                description |-> listeners[l].metadata.description,
                attributes |-> listeners[l].metadata.attributes]
           created == Nft_create(nfts, create_request) IN
       \/ /\ nfts' = created.table
          /\ listeners' =
                 IF created.result = "Ok"
                 THEN [listeners EXCEPT ![l].pc = "lines",
                                        ![l].outcome = "created"]
                 ELSE [listeners EXCEPT
                          ![l] = abort_log_entry(@, created.result)]
       \/ /\ UNCHANGED nfts
          /\ listeners' = [listeners EXCEPT
                               ![l] = abort_log_entry(@, "db_error")]
    /\ UNCHANGED outsideListener

\* start: after an error of run_indexer, sleep(5 s), then run_indexer again
Reconnect(l) ==
    /\ listeners[l].pc = "backoff"
    /\ listeners' = [listeners EXCEPT ![l] = ListenerStart]
    /\ UNCHANGED <<nfts, outsideListener>>

ListenerStep(l) ==
    \/ StartWebsocketIndexer(l)
    \/ LogsSubscribe(l)
    \/ NextNotification(l)
    \/ StreamEnds(l)
    \/ ProcessLogLine(l)
    \/ EndLogEntry(l)
    \/ FindByMint(l)
    \/ FetchMetadata(l)
    \/ NftCreate(l)
    \/ Reconnect(l)

\* one Listener task on the store
ListenerNext ==
    \/ Main
    \/ ListenerStep("L1")

SpecListener == Init /\ [][ListenerNext]_vars

\* two Listener tasks on one store, not coordinated
ListenersNext ==
    \/ Main
    \/ \E l \in Listeners : ListenerStep(l)

SpecListeners == Init /\ [][ListenersNext]_vars

----------------------------------------------------------------------------
(* Claims *)

\* C1: for every price of the u64 range and every fee_bp in 0..1000,
\* calculate_fee and calculate_seller_proceeds both succeed, the fee is the
\* floor of price * fee_bp / 10000 (the one integer f with
\* f * 10000 <= price * fee_bp < (f + 1) * 10000), the fee is at most the
\* price, and proceeds + fee = price.
C1_FeeExact ==
    feeOut.called =>
        /\ feeOut.fee.err = "Ok"
        /\ feeOut.proceeds.err = "Ok"
        /\ feeOut.fee.value * 10000 <= feeIn.price * feeIn.fee_bp
        /\ feeIn.price * feeIn.fee_bp < (feeOut.fee.value + 1) * 10000
        /\ feeOut.fee.value <= feeIn.price
        /\ feeOut.proceeds.value + feeOut.fee.value = feeIn.price

\* C1 witness: the fee of the largest price at the largest fee has been
\* computed and is neither 0 nor the price
C1_Witness ==
    /\ feeOut.called
    /\ feeIn.price = U64_MAX
    /\ feeIn.fee_bp = MAX_FEE_PERCENTAGE
    /\ feeOut.fee.err = "Ok"
    /\ feeOut.fee.value > 0
    /\ feeOut.proceeds.err = "Ok"
    /\ feeOut.proceeds.value > 0

----------------------------------------------------------------------------
(* Vocabulary of the ledger claims *)

\* an account of the program holding an initialized Marketplace record
IsMarketplace(a) ==
    /\ a.owner = PROGRAM_ID
    /\ a.data.len = Marketplace_LEN
    /\ a.data.is_initialized

\* an account of the program holding an initialized Listing record
IsListing(a) ==
    /\ a.owner = PROGRAM_ID
    /\ a.data.len = Listing_LEN
    /\ a.data.is_initialized

\* the step runs an instruction: last' is that instruction and its result,
\* accounts the state before it, accounts' the state it left
RunStep == txLen' = txLen + 1

\* the step runs an instruction of the given kind that returns Ok
Succeeds(kind) == RunStep /\ last'.ix.kind = kind /\ last'.err = "Ok"

\* C2 (as claimed): a successful BuyNft takes the price from the buyer,
\* gives the proceeds (and the closed listing's balance) to the seller
\* recorded in the listing and the fee to the fee_recipient recorded in the
\* marketplace account used, and changes no other wallet.
C2_FeeToRecipient ==
    [][Succeeds("BuyNft") =>
        LET ix == last'.ix
            m == accounts[ix.marketplace].data
            l == accounts[ix.listing].data
            fee == (l.price * m.fee_percentage) \div 10000
        IN \A w \in Wallets :
              accounts'[w].lamports =
                  accounts[w].lamports
                  - (IF w = ix.buyer THEN l.price ELSE 0)
                  + (IF w = l.seller
                     THEN (l.price - fee) + accounts[ix.listing].lamports
                     ELSE 0)
                  + (IF w = m.fee_recipient THEN fee ELSE 0)]_vars

\* the instruction names a marketplace or listing account at an address
\* other than the one derived from the seeds: ("marketplace", authority),
\* the authority being the signer or, where no authority is supplied, the
\* one recorded in the account; ("listing", mint, seller)
AddressMismatch(acc, ix) ==
    CASE ix.kind \in {"InitializeMarketplace", "UpdateMarketplaceFee"} ->
             ix.marketplace # get_marketplace_pda(PROGRAM_ID, ix.authority)
      [] ix.kind = "CancelListing" ->
             ix.listing # get_listing_pda(PROGRAM_ID, ix.nft_mint, ix.seller)
      [] ix.kind \in {"ListNft", "BuyNft"} ->
             \/ ix.listing # get_listing_pda(PROGRAM_ID, ix.nft_mint, ix.seller)
             \/ /\ Marketplace_unpack(acc[ix.marketplace].data).err = "Ok"
                /\ ix.marketplace #
                       get_marketplace_pda(PROGRAM_ID,
                                           acc[ix.marketplace].data.authority)

\* the instruction is signed, its arguments are in range and the accounts
\* it names are in the state the instruction expects: the account to create
\* is unused, the records to read are there
OtherwiseValid(acc, ix) ==
    /\ ix.is_signer
    /\ ix.kind = "InitializeMarketplace" =>
           /\ ix.fee_percentage <= 1000
           /\ acc[ix.marketplace].owner = SYSTEM_PROGRAM
    /\ ix.kind = "UpdateMarketplaceFee" =>
           /\ ix.fee_percentage <= 1000
           /\ Marketplace_unpack(acc[ix.marketplace].data).err = "Ok"
    /\ ix.kind = "ListNft" =>
           /\ ix.price > 0
           /\ Marketplace_unpack(acc[ix.marketplace].data).err = "Ok"
           /\ acc[ix.listing].owner = SYSTEM_PROGRAM
    /\ ix.kind = "BuyNft" =>
           /\ Listing_unpack(acc[ix.listing].data).err = "Ok"
           /\ Marketplace_unpack(acc[ix.marketplace].data).err = "Ok"
    /\ ix.kind = "CancelListing" =>
           Listing_unpack(acc[ix.listing].data).err = "Ok"

\* C3 (as claimed): every instruction that names a marketplace or listing
\* account at an address other than the derived one fails with InvalidSeeds.
C3_DerivedAddressChecked ==
    [][(RunStep /\ OtherwiseValid(accounts, last'.ix)
           /\ AddressMismatch(accounts, last'.ix))
        => last'.err = "InvalidSeeds"]_vars

\* C4: every initialized marketplace account has fee_percentage <= 1000, in
\* the working state and in the committed state; InitializeMarketplace and
\* UpdateMarketplaceFee reject a fee above 1000 with InvalidFeePercentage
\* and never reject a fee of at most 1000 with that error.
C4_FeeCap ==
    /\ \A m \in Addrs :
          /\ IsMarketplace(accounts[m]) =>
                 accounts[m].data.fee_percentage <= 1000
          /\ IsMarketplace(snapshot[m]) =>
                 snapshot[m].data.fee_percentage <= 1000
    /\ last.ix.kind \in {"InitializeMarketplace", "UpdateMarketplaceFee"} =>
          (last.ix.fee_percentage > 1000 <=> last.err = "InvalidFeePercentage")

\* C4 witness: a marketplace initialized with fee 1000 is committed, and an
\* UpdateMarketplaceFee to 1001 has just been rejected
C4_Witness ==
    /\ last.ix.kind = "UpdateMarketplaceFee"
    /\ last.ix.fee_percentage = 1001
    /\ last.err = "InvalidFeePercentage"
    /\ IsMarketplace(snapshot[last.ix.marketplace])
    /\ snapshot[last.ix.marketplace].data.fee_percentage = 1000

\* C5: in the committed ledger state the total_volume and total_sales of a
\* marketplace never decrease; an instruction that returns Ok changes them
\* only when it is a BuyNft on that marketplace, which adds the listing
\* price to total_volume and 1 to total_sales.
C5_StatisticsMonotone ==
    [][\A m \in MarketplaceAddrs :
          /\ IsMarketplace(snapshot[m]) =>
                /\ IsMarketplace(snapshot'[m])
                /\ snapshot'[m].data.total_volume >= snapshot[m].data.total_volume
                /\ snapshot'[m].data.total_sales >= snapshot[m].data.total_sales
          /\ (RunStep /\ last'.err = "Ok" /\ IsMarketplace(accounts[m])) =>
                /\ IsMarketplace(accounts'[m])
                /\ IF last'.ix.kind = "BuyNft" /\ last'.ix.marketplace = m
                   THEN /\ accounts'[m].data.total_volume =
                               accounts[m].data.total_volume
                               + accounts[last'.ix.listing].data.price
                        /\ accounts'[m].data.total_sales =
                               accounts[m].data.total_sales + 1
                   ELSE /\ accounts'[m].data.total_volume =
                               accounts[m].data.total_volume
                        /\ accounts'[m].data.total_sales =
                               accounts[m].data.total_sales]_vars

\* C5 witness: a sale at the high price has been counted on a committed
\* marketplace, and an UpdateMarketplaceFee has then run on that marketplace
C5_Witness ==
    /\ last.ix.kind = "UpdateMarketplaceFee"
    /\ last.err = "Ok"
    /\ IsMarketplace(snapshot[last.ix.marketplace])
    /\ snapshot[last.ix.marketplace].data.total_sales = 0
    /\ accounts[last.ix.marketplace].data.total_sales = 1
    /\ accounts[last.ix.marketplace].data.total_volume = HIGH_PRICE

\* C6: a ListNft for a (mint, seller) pair whose listing account is still
\* an account of the program does not succeed and changes nothing; when it
\* names that account, has a price above 0, is signed and names an
\* initialized marketplace, it fails with AccountAlreadyInitialized.
C6_OneListingPerPair ==
    [][(RunStep /\ last'.ix.kind = "ListNft"
           /\ accounts[get_listing_pda(PROGRAM_ID, last'.ix.nft_mint,
                                       last'.ix.seller)].owner = PROGRAM_ID)
        => /\ last'.err # "Ok"
           /\ accounts' = accounts
           /\ (/\ last'.ix.listing =
                     get_listing_pda(PROGRAM_ID, last'.ix.nft_mint,
                                     last'.ix.seller)
               /\ last'.ix.price > 0
               /\ last'.ix.is_signer
               /\ Marketplace_unpack(accounts[last'.ix.marketplace].data).err
                     = "Ok")
              => last'.err = "AccountAlreadyInitialized"]_vars

\* C6 witness: a signed ListNft at another price for a pair with a committed
\* listing has been rejected with AccountAlreadyInitialized
C6_Witness ==
    /\ last.ix.kind = "ListNft"
    /\ last.err = "AccountAlreadyInitialized"
    /\ last.ix.is_signer
    /\ last.ix.listing =
           get_listing_pda(PROGRAM_ID, last.ix.nft_mint, last.ix.seller)
    /\ IsListing(snapshot[last.ix.listing])
    /\ snapshot[last.ix.listing].data.price # last.ix.price
    /\ accounts[last.ix.listing] = snapshot[last.ix.listing]

\* C7: a signed CancelListing whose signer is not the seller recorded in
\* the listing fails with InvalidSeller and changes no account.
C7_CancelByStranger ==
    [][(RunStep /\ last'.ix.kind = "CancelListing" /\ last'.ix.is_signer
           /\ Listing_unpack(accounts[last'.ix.listing].data).err = "Ok"
           /\ accounts[last'.ix.listing].data.seller # last'.ix.seller)
        => /\ last'.err = "InvalidSeller"
           /\ accounts' = accounts]_vars

\* C7 witness: a CancelListing signed by another wallet than the seller of
\* a committed listing has been rejected with InvalidSeller
C7_Witness ==
    /\ last.ix.kind = "CancelListing"
    /\ last.err = "InvalidSeller"
    /\ last.ix.is_signer
    /\ IsListing(snapshot[last.ix.listing])
    /\ snapshot[last.ix.listing].data.seller # last.ix.seller
    /\ snapshot[last.ix.listing].lamports > 0
    /\ accounts[last.ix.listing] = snapshot[last.ix.listing]

\* C8: while a transaction runs, the fee_percentage of a marketplace changes
\* only by an UpdateMarketplaceFee on it that is signed by the authority
\* recorded in it and returns Ok; a signed UpdateMarketplaceFee with a fee
\* in range whose signer is not that authority fails with
\* InvalidMarketplaceAuthority and changes nothing.
C8_FeeOnlyByAuthority ==
    [][/\ \A m \in Addrs :
             (/\ RunStep
              /\ IsMarketplace(accounts[m]) /\ IsMarketplace(accounts'[m])
              /\ accounts'[m].data.fee_percentage #
                     accounts[m].data.fee_percentage)
             => /\ last'.ix.kind = "UpdateMarketplaceFee"
                /\ last'.ix.marketplace = m
                /\ last'.ix.is_signer
                /\ last'.ix.authority = accounts[m].data.authority
                /\ last'.err = "Ok"
       /\ (/\ RunStep /\ last'.ix.kind = "UpdateMarketplaceFee"
           /\ last'.ix.is_signer /\ last'.ix.fee_percentage <= 1000
           /\ Marketplace_unpack(accounts[last'.ix.marketplace].data).err = "Ok"
           /\ accounts[last'.ix.marketplace].data.authority # last'.ix.authority)
          => /\ last'.err = "InvalidMarketplaceAuthority"
             /\ accounts' = accounts
       /\ ~RunStep =>
             \A m \in Addrs :
                 (IsMarketplace(accounts'[m]) /\ IsMarketplace(snapshot[m]))
                 => accounts'[m].data.fee_percentage
                        \in {accounts[m].data.fee_percentage,
                             snapshot[m].data.fee_percentage}]_vars

\* C8 witness: the authority has changed the fee of a committed marketplace
\* and, in another behaviour, a stranger's update has been rejected; here
\* the first: the fee written differs from the committed one
C8_Witness ==
    /\ last.ix.kind = "UpdateMarketplaceFee"
    /\ last.err = "Ok"
    /\ IsMarketplace(snapshot[last.ix.marketplace])
    /\ snapshot[last.ix.marketplace].data.authority = last.ix.authority
    /\ accounts[last.ix.marketplace].data.fee_percentage #
           snapshot[last.ix.marketplace].data.fee_percentage

\* C9 (as claimed): a signed BuyNft against a listing account that does not
\* exist (no balance: never created, or closed) fails with
\* AccountNotInitialized and changes no account.
C9_BuyOfMissingListing ==
    [][(RunStep /\ last'.ix.kind = "BuyNft" /\ last'.ix.is_signer
           /\ accounts[last'.ix.listing].lamports = 0)
        => /\ last'.err = "AccountNotInitialized"
           /\ accounts' = accounts]_vars

\* C10: a BuyNft that returns an error is followed by the restoration of the
\* state the transaction started from, which the failed transaction leaves
\* as it was; a signed BuyNft that passes every check of the handler and
\* whose total_volume addition exceeds the u64 range returns AmountOverflow.
C10_RejectedBuyAppliesNothing ==
    [][/\ (last.ix.kind = "BuyNft" /\ last.err # "Ok") =>
             /\ accounts' = snapshot
             /\ snapshot' = snapshot
             /\ txLen' = 0
       /\ (/\ RunStep /\ last'.ix.kind = "BuyNft" /\ last'.ix.is_signer
           /\ Listing_unpack(accounts[last'.ix.listing].data).err = "Ok"
           /\ Marketplace_unpack(accounts[last'.ix.marketplace].data).err = "Ok"
           /\ accounts[last'.ix.listing].data.nft_mint = last'.ix.nft_mint
           /\ accounts[last'.ix.listing].data.seller = last'.ix.seller
           /\ accounts[last'.ix.buyer].lamports >=
                  accounts[last'.ix.listing].data.price
           /\ accounts[last'.ix.marketplace].data.total_volume
                  + accounts[last'.ix.listing].data.price > U64_MAX)
          => last'.err = "AmountOverflow"]_vars

\* C10 witness: a BuyNft has been rejected with AmountOverflow after its
\* transfers: the buyer's balance in the state the handler left is below
\* the one the transaction started from
C10_Witness ==
    /\ last.ix.kind = "BuyNft"
    /\ last.err = "AmountOverflow"
    /\ txLen = 1
    /\ accounts[last.ix.buyer].lamports < snapshot[last.ix.buyer].lamports

\* the errors of argument validation and of authorization
ValidationErrors == {"InvalidFeePercentage", "InvalidPrice", "InvalidSeeds"}
AuthorizationErrors ==
    {"MissingRequiredSignature", "InvalidMarketplaceAuthority", "InvalidSeller"}

\* C11: an instruction that returns a validation error (InvalidFeePercentage,
\* InvalidPrice, InvalidSeeds) or an authorization error
\* (MissingRequiredSignature, InvalidMarketplaceAuthority, InvalidSeller)
\* returns with every account as it found it: no account created, no balance
\* moved, no data written.
C11_RejectedBeforeMutation ==
    [][(RunStep /\ last'.err \in ValidationErrors \cup AuthorizationErrors)
        => accounts' = accounts]_vars

\* C11 witness: a signed ListNft with a price above 0 on an initialized
\* marketplace, by a seller who can pay the rent, for an unused listing
\* account that is not the derived one, has been rejected with InvalidSeeds
C11_Witness ==
    /\ last.ix.kind = "ListNft"
    /\ last.err = "InvalidSeeds"
    /\ IsMarketplace(accounts[last.ix.marketplace])
    /\ accounts[last.ix.listing] = Absent
    /\ accounts[last.ix.seller].lamports >= minimum_balance(Listing_LEN)

\* the step runs a BuyNft or a CancelListing
ClosingStep == RunStep /\ last'.ix.kind \in {"BuyNft", "CancelListing"}

\* C12 (as claimed): a successful BuyNft or CancelListing leaves the listing
\* account with balance 0, a successful CancelListing credits the whole
\* previous balance of the listing to the seller recorded in it, and a
\* BuyNft or CancelListing against a listing account with balance 0 fails;
\* a sale at fee 250 and the scenario's price adds the price to total_volume
\* and 1 to total_sales, the fee being 2.5% of the price.
C12_ClosedListingStaysClosed ==
    [][/\ (ClosingStep /\ last'.err = "Ok") =>
             accounts'[last'.ix.listing].lamports = 0
       /\ Succeeds("CancelListing") =>
             LET l == last'.ix.listing
                 seller == accounts[l].data.seller IN
             accounts'[seller].lamports =
                 accounts[seller].lamports + accounts[l].lamports
       /\ (ClosingStep /\ accounts[last'.ix.listing].lamports = 0) =>
             last'.err # "Ok"
       /\ (/\ Succeeds("BuyNft")
           /\ accounts[last'.ix.listing].data.price = HIGH_PRICE
           /\ accounts[last'.ix.marketplace].data.fee_percentage = 250) =>
             LET m == last'.ix.marketplace IN
             /\ calculate_fee(250, HIGH_PRICE).value * 40 = HIGH_PRICE
             /\ accounts'[m].data.total_volume =
                    accounts[m].data.total_volume + HIGH_PRICE
             /\ accounts'[m].data.total_sales =
                    accounts[m].data.total_sales + 1]_vars

\* C13: a BuyNft returns Ok only if the mint account supplied is the
\* listing's nft_mint, the seller account supplied is the listing's seller
\* and the buyer holds at least the listing's price; a signed BuyNft on an
\* initialized listing and marketplace fails with ExpectedAmountMismatch
\* when the mint differs, else with InvalidSeller when the seller differs,
\* else with InsufficientFunds when the buyer holds less than the price.
C13_BuyChecks ==
    [][(RunStep /\ last'.ix.kind = "BuyNft") =>
        LET ix == last'.ix
            l == accounts[ix.listing].data
            funds == accounts[ix.buyer].lamports IN
        /\ last'.err = "Ok" =>
              /\ l.nft_mint = ix.nft_mint
              /\ l.seller = ix.seller
              /\ funds >= l.price
        /\ (/\ ix.is_signer
            /\ Listing_unpack(accounts[ix.listing].data).err = "Ok"
            /\ Marketplace_unpack(accounts[ix.marketplace].data).err = "Ok") =>
              /\ l.nft_mint # ix.nft_mint =>
                    last'.err = "ExpectedAmountMismatch"
              /\ (l.nft_mint = ix.nft_mint /\ l.seller # ix.seller) =>
                    last'.err = "InvalidSeller"
              /\ (l.nft_mint = ix.nft_mint /\ l.seller = ix.seller
                     /\ funds < l.price) =>
                    last'.err = "InsufficientFunds"]_vars

\* C13 witness: a signed BuyNft naming another mint than the one of a
\* committed listing, with the listing's seller and a buyer who can pay,
\* has been rejected with ExpectedAmountMismatch
C13_Witness ==
    /\ last.ix.kind = "BuyNft"
    /\ last.err = "ExpectedAmountMismatch"
    /\ IsListing(snapshot[last.ix.listing])
    /\ snapshot[last.ix.listing].lamports > 0
    /\ snapshot[last.ix.listing].data.seller = last.ix.seller
    /\ accounts[last.ix.buyer].lamports >= snapshot[last.ix.listing].data.price
    /\ accounts = snapshot

\* a BuyNft has been rejected with InsufficientFunds: the buyer holds less
\* than the price of a committed listing whose mint and seller were supplied
C13_WitnessFunds ==
    /\ last.ix.kind = "BuyNft"
    /\ last.err = "InsufficientFunds"
    /\ IsListing(snapshot[last.ix.listing])
    /\ accounts[last.ix.buyer].lamports < snapshot[last.ix.listing].data.price

\* C14: every listing account of the program, in the working and in the
\* committed state, has price > 0; a ListNft with price 0 fails with
\* InvalidPrice and changes no account; a signed ListNft with price 1 by a
\* seller who can pay the rent, on an initialized marketplace, for the
\* derived listing account while that account is unused, returns Ok and
\* leaves a listing of price 1 there.
C14_PositivePrice ==
    [][/\ \A l \in Addrs :
             /\ IsListing(accounts'[l]) => accounts'[l].data.price > 0
             /\ IsListing(snapshot'[l]) => snapshot'[l].data.price > 0
       /\ (RunStep /\ last'.ix.kind = "ListNft" /\ last'.ix.price = 0) =>
             /\ last'.err = "InvalidPrice"
             /\ accounts' = accounts
       /\ (/\ RunStep /\ last'.ix.kind = "ListNft" /\ last'.ix.price = 1
           /\ last'.ix.is_signer
           /\ Marketplace_unpack(accounts[last'.ix.marketplace].data).err = "Ok"
           /\ last'.ix.listing =
                  get_listing_pda(PROGRAM_ID, last'.ix.nft_mint, last'.ix.seller)
           /\ accounts[last'.ix.listing] = Absent
           /\ accounts[last'.ix.seller].lamports
                  >= minimum_balance(Listing_LEN)) =>
             /\ last'.err = "Ok"
             /\ IsListing(accounts'[last'.ix.listing])
             /\ accounts'[last'.ix.listing].data.price = 1]_vars

\* C14 witness: a ListNft with price 1 on a marketplace of the program has
\* created a listing of price 1 in an account that did not exist before
C14_Witness ==
    /\ last.ix.kind = "ListNft"
    /\ last.err = "Ok"
    /\ last.ix.price = 1
    /\ IsMarketplace(accounts[last.ix.marketplace])
    /\ IsListing(accounts[last.ix.listing])
    /\ accounts[last.ix.listing].data.price = 1
    /\ snapshot[last.ix.listing] = Absent

\* a signed ListNft with price 0 on an initialized marketplace for the
\* unused derived listing account has been rejected with InvalidPrice
C14_WitnessRejected ==
    /\ last.ix.kind = "ListNft"
    /\ last.err = "InvalidPrice"
    /\ last.ix.is_signer
    /\ IsMarketplace(accounts[last.ix.marketplace])
    /\ last.ix.listing =
           get_listing_pda(PROGRAM_ID, last.ix.nft_mint, last.ix.seller)
    /\ accounts[last.ix.listing] = Absent

\* C15 (as claimed): a ListNft returns Ok only when the marketplace account
\* supplied is an initialized marketplace of this program; a signed ListNft
\* with a price above 0 and any other marketplace account fails with
\* AccountNotInitialized and changes nothing; every listing's marketplace
\* field names an initialized marketplace of this program.
C15_ListedOnInitializedMarketplace ==
    [][/\ Succeeds("ListNft") =>
             IsMarketplace(accounts[last'.ix.marketplace])
       /\ (/\ RunStep /\ last'.ix.kind = "ListNft"
           /\ last'.ix.is_signer /\ last'.ix.price > 0
           /\ ~IsMarketplace(accounts[last'.ix.marketplace])) =>
             /\ last'.err = "AccountNotInitialized"
             /\ accounts' = accounts
       /\ \A l \in Addrs :
             IsListing(accounts'[l]) =>
                 IsMarketplace(accounts'[accounts'[l].data.marketplace])]_vars

\* C16: an InitializeMarketplace by an authority whose marketplace account
\* exists fails and changes no account; no step removes a marketplace
\* account of the program or changes the authority recorded in it; an
\* InitializeMarketplace that returns Ok was signed, created the account at
\* the address derived from the signer, which did not exist before, and
\* left there total_volume = 0, total_sales = 0, authority = the signer and
\* the fee supplied.
C16_InitializedOnce ==
    [][/\ (RunStep /\ last'.ix.kind = "InitializeMarketplace"
           /\ IsMarketplace(accounts[get_marketplace_pda(PROGRAM_ID,
                                                         last'.ix.authority)]))
          => /\ last'.err # "Ok"
             /\ accounts' = accounts
       /\ \A m \in MarketplaceAddrs :
             (IsMarketplace(accounts[m]) /\ RunStep) =>
                 /\ IsMarketplace(accounts'[m])
                 /\ accounts'[m].data.authority = accounts[m].data.authority
       /\ \A m \in MarketplaceAddrs :
             IsMarketplace(snapshot[m]) =>
                 /\ IsMarketplace(snapshot'[m])
                 /\ snapshot'[m].data.authority = snapshot[m].data.authority
       /\ Succeeds("InitializeMarketplace") =>
             LET ix == last'.ix
                 m == get_marketplace_pda(PROGRAM_ID, ix.authority) IN
             /\ ix.is_signer
             /\ ix.marketplace = m
             /\ accounts[m] = Absent
             /\ accounts'[m].owner = PROGRAM_ID
             /\ accounts'[m].data =
                    [len |-> Marketplace_LEN, is_initialized |-> TRUE,
                     authority |-> ix.authority,
                     fee_percentage |-> ix.fee_percentage,
                     fee_recipient |-> ix.authority,
                     total_volume |-> 0, total_sales |-> 0]]_vars

\* C16 witness: a signed InitializeMarketplace with another fee, by the
\* authority of a committed marketplace that has counted a sale, has been
\* rejected and the record is as it was
C16_Witness ==
    /\ last.ix.kind = "InitializeMarketplace"
    /\ last.err = "InvalidAccountOwner"
    /\ last.ix.is_signer
    /\ last.ix.marketplace = get_marketplace_pda(PROGRAM_ID, last.ix.authority)
    /\ IsMarketplace(snapshot[last.ix.marketplace])
    /\ snapshot[last.ix.marketplace].data.total_sales = 1
    /\ snapshot[last.ix.marketplace].data.fee_percentage # last.ix.fee_percentage
    /\ accounts[last.ix.marketplace] = snapshot[last.ix.marketplace]

\* the payload on the wire has an unrecognized variant index or is shorter
\* than its variant's encoding
Undecodable(bytes) ==
    \/ bytes = <<>>
    \/ Head(bytes) \notin 0..4
    \/ Len(bytes) < 1 + FieldWidth(Head(bytes))

\* C17 (as claimed): Processor::process on a payload with an unrecognized
\* discriminant or a truncated payload returns the InvalidInstruction error
\* and changes no account.
C17_UndecodableIsInvalidInstruction ==
    (wire.stage = "processed" /\ Undecodable(wire.bytes)) =>
        /\ wire.err = "InvalidInstruction"
        /\ accounts = InitialAccounts

\* the part of C17 the code keeps: such a payload is rejected by the
\* decoder, before any handler runs, and no account changes
C17_UndecodableIsRejected ==
    (wire.stage = "processed" /\ Undecodable(wire.bytes)) =>
        /\ wire.decoded.err # "Ok"
        /\ wire.err # "Ok"
        /\ accounts = InitialAccounts

\* C18: for every instruction a client builds, unpack(pack(i)) = i; the
\* payload is the variant index followed by the variant's fixed-width
\* field and nothing else; and no instruction carrying other data has the
\* same payload.
C18_CodecRoundTrip ==
    (wire.stage \in {"packed", "processed"} /\ wire.intact) =>
        /\ MarketplaceInstruction_unpack(wire.bytes) =
               [err |-> "Ok", value |-> InstructionData(wire.ix)]
        /\ wire.stage = "processed" =>
               wire.decoded = [err |-> "Ok", value |-> InstructionData(wire.ix)]
        /\ Head(wire.bytes) = VariantIndex[wire.ix.kind]
        /\ Len(wire.bytes) = 1 + FieldWidth(VariantIndex[wire.ix.kind])
        /\ \A other \in CodecInputs :
               MarketplaceInstruction_pack(other) = wire.bytes =>
                   InstructionData(other) = InstructionData(wire.ix)

\* C18 witness: a ListNft at the largest price of the model's range has
\* been packed into 9 bytes and decoded by the processor to the same price
C18_Witness ==
    /\ wire.stage = "processed"
    /\ wire.intact
    /\ wire.ix.kind = "ListNft"
    /\ wire.ix.price = 2^30 + (2^30 - 1)
    /\ Len(wire.bytes) = 9
    /\ wire.decoded.err = "Ok"
    /\ wire.decoded.value.price = wire.ix.price

\* C19: when a sweep has completed (process_transactions returned Ok after
\* the loop), the persisted cursor is the head read at the start of the
\* sweep, whatever batches and blocks of the range failed.
C19_CursorAtHeadAfterSweep ==
    (/\ poller.pc = "sleep" /\ poller.result = "Ok"
     /\ poller.current_slot > poller.last_slot) =>
        /\ indexer_state.has_row
        /\ indexer_state.last_processed_slot = poller.current_slot

\* C19 witness: the sweep of 101..200 has completed with block 150 failed
\* and the cursor is 200
C19_Witness ==
    /\ poller.pc = "sleep"
    /\ poller.result = "Ok"
    /\ poller.last_slot = 100
    /\ poller.current_slot = 200
    /\ \E i \in 1..Len(poller.visited) :
          /\ poller.visited[i].unit = "block"
          /\ poller.visited[i].first = 150
          /\ ~poller.visited[i].ok
    /\ indexer_state.last_processed_slot = 200

\* C20: no step lowers the persisted cursor.
C20_CursorMonotone ==
    [][get_last_processed_slot(indexer_state')
           >= get_last_processed_slot(indexer_state)]_vars

\* C20 witness: a cycle has read a head below the cursor and has ended
\* with the cursor as it was
C20_Witness ==
    /\ poller.pc = "sleep"
    /\ poller.result = "Ok"
    /\ poller.current_slot < poller.last_slot
    /\ indexer_state.has_row
    /\ indexer_state.last_processed_slot = poller.last_slot

\* the batches of the sweep in hand, in the order they were taken
Batches ==
    SelectSeq(poller.visited, LAMBDA v : v.unit = "batch")

\* the blocks of the sweep in hand whose processing was attempted, in order
BlocksAttempted ==
    SelectSeq(poller.visited, LAMBDA v : v.unit = "block")

\* the for loop of the sweep in hand has run to its end
SweepDone ==
    /\ poller.current_slot > poller.last_slot
    /\ \/ poller.pc = "batch" /\ poller.start_slot > poller.current_slot
       \/ poller.pc = "sleep" /\ poller.result = "Ok"

\* C21: a cycle that reads a head at or below the cursor goes straight to
\* its sleep: no batch or block is fetched, no activity row is written and
\* the cursor table is not written.
C21_NoOpCycle ==
    [][(/\ poller.pc = "get_slot"
        /\ poller'.pc # "backoff"
        /\ poller'.current_slot <= poller.last_slot) =>
           (/\ poller'.pc = "sleep"
            /\ poller'.result = "Ok"
            /\ poller'.visited = <<>>
            /\ poller'.blocks = <<>>
            /\ activities' = activities
            /\ indexer_state' = indexer_state)]_vars

\* C21 witness: with the cursor at 200 a cycle has read the head 100 and is
\* asleep with nothing visited
C21_Witness ==
    /\ poller.pc = "sleep"
    /\ poller.result = "Ok"
    /\ poller.last_slot = 200
    /\ poller.current_slot = 100
    /\ poller.visited = <<>>
    /\ indexer_state.last_processed_slot = 200

\* C22: when the loop of a sweep has ended, its batches are contiguous from
\* cursor+1 to the head, each of at most 100 slots and all but the last of
\* exactly 100.
C22_BatchesPartitionRange ==
    SweepDone =>
        LET b == Batches IN
        /\ Len(b) >= 1
        /\ b[1].first = poller.last_slot + 1
        /\ b[Len(b)].last = poller.current_slot
        /\ \A i \in 1..Len(b) :
              /\ b[i].first <= b[i].last
              /\ b[i].last - b[i].first + 1 <= BATCH_SIZE
              /\ i < Len(b) => b[i].last - b[i].first + 1 = BATCH_SIZE
              /\ i < Len(b) => b[i + 1].first = b[i].last + 1

\* C22 witness: the sweep of 1..250 has ended after the batches 1..100,
\* 101..200 and 201..250
C22_Witness ==
    /\ SweepDone
    /\ poller.last_slot = 0
    /\ poller.current_slot = 250
    /\ Len(Batches) = 3
    /\ Batches[3].first = 201
    /\ Batches[3].last = 250

\* C23: when the loop of a sweep has ended, every batch of the range was
\* attempted exactly once whatever failed before it, and every confirmed
\* block of a batch whose list was fetched was attempted exactly once,
\* with every transaction of a fetched block that decodes.
C23_FailureSkipsUnit ==
    SweepDone =>
        /\ \A s \in (poller.last_slot + 1)..poller.current_slot :
              Cardinality({i \in 1..Len(Batches) :
                              Batches[i].first <= s /\ s <= Batches[i].last})
                  = 1
        /\ \A i \in 1..Len(Batches) :
              Batches[i].ok =>
                  \A s \in ConfirmedBlocks :
                      (Batches[i].first <= s /\ s <= Batches[i].last) =>
                          Cardinality({j \in 1..Len(BlocksAttempted) :
                                          BlocksAttempted[j].first = s}) = 1
        /\ \A j \in 1..Len(BlocksAttempted) :
              BlocksAttempted[j].ok =>
                  LET txs == BlockTransactions(BlocksAttempted[j].first)
                      handed == BlocksAttempted[j].handed IN
                  /\ Len(handed) = Len(txs)
                  /\ \A k \in 1..Len(txs) :
                        handed[k].attempted = txs[k].decodes

\* C23 witness: in the sweep of 1..250 the batch 1..100 failed, block 150
\* failed, a transaction of block 151 failed, and block 201 of the last
\* batch was processed
C23_Witness ==
    /\ SweepDone
    /\ poller.last_slot = 0
    /\ poller.current_slot = 250
    /\ ~Batches[1].ok
    /\ \E j \in 1..Len(BlocksAttempted) :
          BlocksAttempted[j].first = 150 /\ ~BlocksAttempted[j].ok
    /\ \E j \in 1..Len(BlocksAttempted) :
          /\ BlocksAttempted[j].first = 151
          /\ BlocksAttempted[j].ok
          /\ BlocksAttempted[j].handed[1].result = "Err"
          /\ BlocksAttempted[j].handed[2].attempted
    /\ \E j \in 1..Len(BlocksAttempted) :
          BlocksAttempted[j].first = 201 /\ BlocksAttempted[j].ok

\* C24: every transaction of a fetched block that mentions the program
\* among its account keys has an activity row keyed by its signature, and
\* every activity row is keyed by the signature of such a transaction.
C24_ProgramTransactionsReachSink ==
    /\ \A j \in 1..Len(BlocksAttempted) :
          BlocksAttempted[j].ok =>
              LET txs == BlockTransactions(BlocksAttempted[j].first) IN
              \A k \in 1..Len(txs) :
                  (/\ txs[k].decodes
                   /\ PROGRAM_ID \in txs[k].account_keys
                   /\ tasks.program_id_valid) =>
                      \E row \in activities :
                          row.transaction_signature = txs[k].signature
    /\ \A row \in activities :
          \E s \in ConfirmedBlocks :
              \E k \in 1..Len(BlockTransactions(s)) :
                  /\ BlockTransactions(s)[k].signature =
                         row.transaction_signature
                  /\ PROGRAM_ID \in BlockTransactions(s)[k].account_keys

\* C25: once main has started the service, both the Ledger Poller and the
\* Event-Stream Listener are among the background tasks it spawned.
C25_BothTasksRunning ==
    tasks.started => {"indexer", "websocket_indexer"} \subseteq tasks.spawned

\* the rows of the nfts table for a mint
RowsOf(mint) ==
    {i \in 1..Len(nfts.rows) : nfts.rows[i].mint_address = mint}

\* the step is the existence check of a handling by l that finds a row
FindsRow(l) ==
    /\ listeners[l].pc = "find_by_mint"
    /\ listeners'[l].pc # "next"
    /\ RowsOf(listeners[l].event.mint) # {}

\* C26: with handlings one after the other, no mint ever has more than one
\* row, and a handling whose existence check finds the row of the mint
\* drops the event: it writes nothing and goes on with the bundle.
C26_SecondHandlingDrops ==
    [][/\ \A mint \in EventMints : Cardinality(RowsOf(mint))' <= 1
       /\ FindsRow("L1") =>
              /\ nfts' = nfts
              /\ listeners'["L1"].pc = "lines"
              /\ listeners'["L1"].outcome = "exists"]_vars

\* C26 witness: one notification carried the event of N1 twice; the first
\* handling wrote the row, the second found it and dropped the event
C26_Witness ==
    /\ Len(listeners["L1"].log.logs) = 2
    /\ \A i \in 1..2 :
          /\ listeners["L1"].log.logs[i].marker
          /\ listeners["L1"].log.logs[i].payload.wellformed
          /\ listeners["L1"].log.logs[i].payload.mint = "N1"
    /\ listeners["L1"].lines = <<>>
    /\ listeners["L1"].outcome = "exists"
    /\ Cardinality(RowsOf("N1")) = 1

\* C27: with two handlings of one mint event interleaved, the mint has at
\* most one row and no insert fails on the row of the other handling.
C27_InterleavedWriteIsIdempotent ==
    /\ \A mint \in EventMints : Cardinality(RowsOf(mint)) <= 1
    /\ \A l \in Listeners : listeners[l].outcome # "unique_violation"

\* the step adds a row to the nfts table
RowWritten == Len(nfts'.rows) > Len(nfts.rows)

\* C28: every row of the nfts table is written from a notification of a
\* transaction that succeeded.
C28_RowsOnlyFromSucceededTransactions ==
    [][RowWritten =>
           \E l \in Listeners :
               /\ listeners[l].pc = "create"
               /\ listeners'[l] # listeners[l]
               /\ ~listeners[l].log.err]_vars

\* C29: the Listener subscribes again only after the fixed delay.
C29_ResubscribesAfterDelay ==
    [][\A l \in Listeners :
           (listeners'[l].pc = "subscribe" /\ listeners'[l] # listeners[l]) =>
               listeners[l].pc \in {"idle", "backoff"}]_vars

\* the step is process_log_entry passing a line that carries the marker and
\* a payload that does not parse
SkipsUnparsable(l) ==
    /\ listeners[l].pc = "lines"
    /\ listeners[l].lines # <<>>
    /\ Head(listeners[l].lines).marker
    /\ ~Head(listeners[l].lines).payload.wellformed
    /\ listeners'[l] # listeners[l]

\* C30: a line with the marker whose payload does not parse writes no row
\* and leaves the Listener in the same bundle at the next line, with its
\* subscription open.
C30_UnparsableLineSkipped ==
    [][\A l \in Listeners :
           SkipsUnparsable(l) =>
               /\ nfts' = nfts
               /\ listeners'[l].pc = "lines"
               /\ listeners'[l].lines = Tail(listeners[l].lines)
               /\ listeners'[l].log = listeners[l].log]_vars

\* C30 witness: the first line of a notification did not parse, and the
\* event of its second line has been handled and its row written
C30_Witness ==
    /\ Len(listeners["L1"].log.logs) = 2
    /\ listeners["L1"].log.logs[1].marker
    /\ ~listeners["L1"].log.logs[1].payload.wellformed
    /\ listeners["L1"].pc = "lines"
    /\ listeners["L1"].lines = <<>>
    /\ listeners["L1"].outcome = "created"
    /\ Cardinality(RowsOf("N1")) = 1

\* the responses of the metadata URI that are failures
FailedResponses == Responses \ {"metadata"}

\* C31: the metadata fetch never ends the handling of a new mint event, and
\* after a failed fetch the row is inserted with image, description and
\* attributes null.
C31_MetadataFailureGivesNulls ==
    [][\A l \in Listeners :
           /\ (listeners[l].pc = "fetch_metadata"
               /\ listeners'[l] # listeners[l]) =>
                  /\ listeners'[l].pc = "create"
                  /\ (listeners'[l].response \in FailedResponses =>
                          listeners'[l].metadata = NoMetadata)
           /\ (/\ listeners[l].pc = "create"
               /\ listeners[l].response \in FailedResponses
               /\ listeners'[l].outcome = "created") =>
                  /\ Len(nfts'.rows) = Len(nfts.rows) + 1
                  /\ LET row == nfts'.rows[Len(nfts'.rows)] IN
                     /\ row.mint_address = listeners[l].event.mint
                     /\ row.image_url = "null"
                     /\ row.description = "null"
                     /\ row.attributes = "null"]_vars

\* C31 witness: the metadata URI answered with text that is not JSON and
\* the row of N1 is stored with its three fields null
C31_Witness ==
    /\ listeners["L1"].response = "invalid_json"
    /\ listeners["L1"].outcome = "created"
    /\ Len(nfts.rows) = 1
    /\ nfts.rows[1] = [mint_address |-> "N1", image_url |-> "null",
                       description |-> "null", attributes |-> "null"]

\* the outcomes of a handling that are storage errors
StorageErrors == {"db_error", "unique_violation"}

\* the step is a storage error in a handling by l
StorageErrorIn(l) ==
    /\ listeners[l].pc \in {"find_by_mint", "create"}
    /\ listeners'[l].outcome \in StorageErrors

\* C32: a storage error in a handling writes nothing, drops the lines left
\* of the notification in hand without handling the event again, and leaves
\* the Listener awaiting the next notification of the same subscription.
C32_StorageErrorAbortsBundle ==
    [][\A l \in Listeners :
           StorageErrorIn(l) =>
               /\ nfts' = nfts
               /\ listeners'[l].pc = "next"
               /\ listeners'[l].lines = <<>>
               /\ listeners'[l].log = listeners[l].log]_vars

\* C32 witness: the store failed in the handling of the first of two events
\* of N1; the second was not handled, no row is stored and the Listener
\* awaits the next notification
C32_Witness ==
    /\ listeners["L1"].pc = "next"
    /\ listeners["L1"].outcome = "db_error"
    /\ Len(listeners["L1"].log.logs) = 2
    /\ \A i \in 1..2 :
          /\ listeners["L1"].log.logs[i].marker
          /\ listeners["L1"].log.logs[i].payload.wellformed
    /\ nfts.rows = <<>>

\* C33: after a cycle-level error the Poller goes on: it waits, runs further
\* cycles and, the store and the RPC node answering again, ends a cycle with
\* the cursor at or beyond the head that cycle read.
C33_PollerRecovers ==
    (poller.pc = "backoff") ~>
        (/\ poller.pc = "sleep"
         /\ poller.result = "Ok"
         /\ get_last_processed_slot(indexer_state) >= poller.current_slot)

\* C33 witness: with the cursor at 100 from an earlier sweep, a sweep to 200
\* failed to persist the cursor and the Poller has waited its delay
C33_Witness ==
    /\ poller.pc = "sleep"
    /\ poller.result = "Err"
    /\ poller.last_slot = 100
    /\ poller.current_slot = 200
    /\ poller.visited # <<>>
    /\ indexer_state.last_processed_slot = 100

\* C34: in a sweep the batches are taken in strictly increasing start slot
\* and the blocks are attempted in strictly increasing slot.
C34_IncreasingSlotOrder ==
    /\ \A i, j \in 1..Len(Batches) :
          i < j => Batches[i].first < Batches[j].first
    /\ \A i, j \in 1..Len(BlocksAttempted) :
          i < j => BlocksAttempted[i].first < BlocksAttempted[j].first

\* C34 witness: the sweep of 1..250 has attempted the blocks 100, 150, 151
\* and 201 in three batches
C34_Witness ==
    /\ SweepDone
    /\ Len(Batches) = 3
    /\ Len(BlocksAttempted) = 4
    /\ BlocksAttempted[1].first = 100
    /\ BlocksAttempted[4].first = 201

\* the cycle before the one in hand swept its range and failed to persist
\* the cursor
PersistFailedBefore ==
    poller.previous.result = "Err" /\ poller.previous.swept

C36_BuyOnListedMarketplace ==
    [][(/\ Succeeds("BuyNft")
        /\ IsMarketplace(
               accounts[accounts[last'.ix.listing].data.marketplace])) =>
           accounts[last'.ix.listing].data.marketplace =
               last'.ix.marketplace]_vars

\* C37: a BuyNft or CancelListing returns Ok only on a listing that holds
\* its balance, that is, one no BuyNft or CancelListing has settled since
\* the ListNft that created it, also inside one transaction.
C37_SettledAtMostOnce ==
    [][(ClosingStep /\ last'.err = "Ok") =>
           accounts[last'.ix.listing].lamports > 0]_vars

RECURSIVE SumOfLamports(_, _)
\* the sum of the balances of a set of accounts
SumOfLamports(acc, keys) ==
    IF keys = {} THEN 0
    ELSE LET k == CHOOSE k \in keys : TRUE IN
         acc[k].lamports + SumOfLamports(acc, keys \ {k})

\* C38: an instruction that returns Ok and the end of a transaction leave
\* the sum of all balances as it was; a successful BuyNft takes exactly the
\* price from the buyer, gives the proceeds and the listing's balance to
\* the seller account and the fee to the fee account supplied, leaves the
\* listing with balance 0 and changes no other wallet.
C38_FundsConserved ==
    [][/\ ((RunStep /\ last'.err = "Ok") \/ (txLen' = 0 /\ last.err = "Ok")) =>
              SumOfLamports(accounts', Addrs) = SumOfLamports(accounts, Addrs)
       /\ Succeeds("BuyNft") =>
              LET ix == last'.ix
                  price == accounts[ix.listing].data.price
                  rate == accounts[ix.marketplace].data.fee_percentage
                  fee == (price * rate) \div 10000 IN
              /\ accounts'[ix.listing].lamports = 0
              /\ \A w \in Wallets :
                    accounts'[w].lamports =
                        accounts[w].lamports
                        - (IF w = ix.buyer THEN price ELSE 0)
                        + (IF w = ix.seller
                           THEN (price - fee) + accounts[ix.listing].lamports
                           ELSE 0)
                        + (IF w = ix.marketplace_fee THEN fee ELSE 0)]_vars

\* C38 witness: W1 has bought the listing of W2 at the high price with a
\* fee above 0 paid to W2
C38_Witness ==
    /\ last.ix.kind = "BuyNft"
    /\ last.err = "Ok"
    /\ last.ix.buyer = "W1"
    /\ last.ix.seller = "W2"
    /\ last.ix.marketplace_fee = "W2"
    /\ accounts[last.ix.listing].data.price = HIGH_PRICE
    /\ accounts[last.ix.marketplace].data.fee_percentage > 0
    /\ accounts["W2"].lamports > HIGH_PRICE

\* C38 witness: a BuyNft at price 1, whose fee is 0, has succeeded
C38_WitnessNoFee ==
    /\ last.ix.kind = "BuyNft"
    /\ last.err = "Ok"
    /\ accounts[last.ix.listing].data.price = 1
    /\ accounts[last.ix.marketplace].data.fee_percentage > 0

\* C39: an instruction as its builder makes it, whose handler returns Ok
\* having written only accounts of the program, is not rejected by the
\* ledger for a change to a read-only account.
C39_BuilderMarksWritable ==
    [][RunStep =>
           LET ix == [last'.ix EXCEPT !.readonly = builder_readonly(last'.ix)]
               r == process(accounts, clock, ix) IN
           (/\ r.err = "Ok"
            /\ verify(accounts, r.accounts, [ix EXCEPT !.readonly = {}]) = "Ok")
               => verify(accounts, r.accounts, ix) = "Ok"]_vars

\* C40: a marketplace record of the program keeps its authority and its
\* fee_recipient on every step that leaves the record in place, and every
\* step but the abort of the transaction that created it leaves it in
\* place; InitializeMarketplace makes the signer both; UpdateMarketplaceFee
\* changes nothing but fee_percentage and BuyNft nothing but the statistics.
C40_MarketplaceIdentityFixed ==
    [][/\ \A m \in MarketplaceAddrs :
             IsMarketplace(accounts[m]) =>
                 \/ /\ IsMarketplace(accounts'[m])
                    /\ accounts'[m].data.authority = accounts[m].data.authority
                    /\ accounts'[m].data.fee_recipient =
                           accounts[m].data.fee_recipient
                 \/ /\ last.err # "Ok"
                    /\ ~IsMarketplace(snapshot[m])
                    /\ accounts' = snapshot
       /\ Succeeds("InitializeMarketplace") =>
             /\ accounts'[last'.ix.marketplace].data.authority =
                    last'.ix.authority
             /\ accounts'[last'.ix.marketplace].data.fee_recipient =
                    last'.ix.authority
       /\ Succeeds("UpdateMarketplaceFee") =>
             accounts'[last'.ix.marketplace].data =
                 [accounts[last'.ix.marketplace].data EXCEPT
                      !.fee_percentage = last'.ix.fee_percentage]
       /\ Succeeds("BuyNft") =>
             LET before == accounts[last'.ix.marketplace].data
                 after == accounts'[last'.ix.marketplace].data IN
             /\ after.authority = before.authority
             /\ after.fee_recipient = before.fee_recipient
             /\ after.fee_percentage = before.fee_percentage]_vars

\* C40 witness: the marketplace W1 initialized has had its fee updated and
\* a sale recorded, and W1 is still its authority and fee recipient
C40_Witness ==
    LET m == accounts[get_marketplace_pda(PROGRAM_ID, "W1")] IN
    /\ IsMarketplace(m)
    /\ m.data.authority = "W1"
    /\ m.data.fee_recipient = "W1"
    /\ m.data.total_sales = 1
    /\ last.ix.kind = "UpdateMarketplaceFee"
    /\ last.err = "Ok"
    /\ last.ix.marketplace = get_marketplace_pda(PROGRAM_ID, "W1")
    /\ m.data.fee_percentage = last.ix.fee_percentage

==============================================================================
